---- MODULE Spec2Model ----
(***************************************************************************)
(* A model of libcore/str.rs: the owned, null-terminated UTF-8 string      *)
(* buffer, the UTF-8 codec, and the search / split operations built on     *)
(* them.  Byte offsets are 0-based as in the source; TLA+ sequences are    *)
(* 1-based, so the byte the source calls s[i] is s[i + 1] here.            *)
(***************************************************************************)
EXTENDS Integers, Sequences, FiniteSets, TLC

(***************************************************************************)
(* Bounds of the model.                                                    *)
(***************************************************************************)
\* longest owned string (in bytes) the mutators may build
MaxLen == 4
\* largest capacity request passed to reserve / reserve_at_least
MaxReserve == 5
\* longest byte vector handed to from_bytes
MaxFrom == 3
\* longest byte vector handed to is_utf8
MaxVec == 6
\* longest string handed to the search and split operations
MaxStr == 4
\* longest needle or separator string
MaxNeedle == 2
\* longest text handed to the trim and word-wrap operations
MaxText == 5
\* longest string handed to the case mappings
MaxCase == 3
\* longest string handed to the comparisons and to levdistance
MaxCmp == 3
\* longest vector of UTF-16 units, and most characters of a string
\* converted to UTF-16
MaxUnits == 4
MaxUtf16Chars == 2

\* the longest run of single-byte appends
MaxAppend == 8

(***************************************************************************)
(* Results.  A call that trips fail_unless! or a bounds check unwinds      *)
(* (sys::fail_assert): it yields Fail instead of a value.                  *)
(***************************************************************************)
Fail == [ok |-> FALSE]
Ok(v) == [ok |-> TRUE, val |-> v]
None == << >>
Some(i) == << i >>

\* 2^n for small n
RECURSIVE Pow2(_)
Pow2(n) == IF n = 0 THEN 1 ELSE 2 * Pow2(n - 1)

(***************************************************************************)
(* UTF-8 tags and ranges (str.rs 1909-1921)                                *)
(***************************************************************************)
tag_cont_u8 == 128
tag_cont == 128
max_one_b == 128
tag_two_b == 192
max_two_b == 2048
tag_three_b == 224
max_three_b == 65536
tag_four_b == 240
max_four_b == 2097152
tag_five_b == 248
max_five_b == 67108864
tag_six_b == 252

\* byte & 192u8
And192(b) == (b \div 64) * 64
\* byte & 63u8
And63(b) == b % 64

\* s[i] on a string or vector fails unless i < len
InBounds(s, i) == i >= 0 /\ i < Len(s)

\* Given a first byte, determine how many bytes are in this UTF-8 character
utf8_char_width(b) ==
    IF b < 128 THEN 1
    ELSE IF b < 192 THEN 0
    ELSE IF b < 224 THEN 2
    ELSE IF b < 240 THEN 3
    ELSE IF b < 248 THEN 4
    ELSE IF b < 252 THEN 5
    ELSE 6

\* the inner loop of is_utf8: check chsize - 1 continuation bytes from i on.
\* Yields Fail on an out-of-bounds read, Ok(-1) on "return false", and
\* Ok(i) with the index after the sequence otherwise.
RECURSIVE is_utf8_cont(_, _, _)
is_utf8_cont(v, i, chsize) ==
    IF chsize > 1
    THEN IF ~InBounds(v, i) THEN Fail
         ELSE IF And192(v[i + 1]) # tag_cont_u8 THEN Ok(-1)
         ELSE is_utf8_cont(v, i + 1, chsize - 1)
    ELSE Ok(i)

\* is_utf8's outer loop without the "i + chsize > total" test
RECURSIVE is_utf8_from_no_total(_, _)
is_utf8_from_no_total(v, i) ==
    LET total == Len(v) IN
    IF i < total
    THEN LET chsize == utf8_char_width(v[i + 1]) IN
         IF chsize = 0 THEN Ok(FALSE)
         ELSE LET r == is_utf8_cont(v, i + 1, chsize) IN
              IF ~r.ok THEN Fail
              ELSE IF r.val = -1 THEN Ok(FALSE)
              ELSE is_utf8_from_no_total(v, r.val)
    ELSE Ok(TRUE)

\* the outer loop of is_utf8, from index i
RECURSIVE is_utf8_from(_, _)
is_utf8_from(v, i) ==
    LET total == Len(v) IN
    IF i < total
    THEN LET chsize == utf8_char_width(v[i + 1]) IN
         IF chsize = 0 THEN Ok(FALSE)
         ELSE IF i + chsize > total THEN Ok(FALSE)
         ELSE LET r == is_utf8_cont(v, i + 1, chsize) IN
              IF ~r.ok THEN Fail
              ELSE IF r.val = -1 THEN Ok(FALSE)
              ELSE is_utf8_from(v, r.val)
    ELSE Ok(TRUE)

\* Determines if a vector of bytes contains valid UTF-8
is_utf8(v) == is_utf8_from(v, 0)

\* Returns false if the index points into the middle of a multi-byte
\* character sequence.
is_char_boundary(s, index) ==
    IF index = Len(s) THEN Ok(TRUE)
    ELSE IF ~InBounds(s, index) THEN Fail
    ELSE LET b == s[index + 1] IN Ok(b < 128 \/ b >= 192)

\* the while loop of char_range_at: accumulate continuation bytes
RECURSIVE char_range_at_loop(_, _, _, _)
char_range_at_loop(s, i, end, val) ==
    IF i < end
    THEN IF ~InBounds(s, i) THEN Fail
         ELSE LET byte == s[i + 1] IN
              IF And192(byte) # tag_cont_u8 THEN Fail
              ELSE char_range_at_loop(s, i + 1, end, val * 64 + And63(byte))
    ELSE Ok(val)

\* char_range_at with the lead byte shifted left by w instead of w + 1, so
\* that the last marker bit is not clipped off
char_range_at_short_shift(s, i) ==
    IF ~InBounds(s, i) THEN Fail
    ELSE LET b0 == s[i + 1]
             w == utf8_char_width(b0)
         IN  IF w = 0 THEN Fail
             ELSE IF w = 1 THEN [ok |-> TRUE, ch |-> b0, next |-> i + 1]
             ELSE LET r == char_range_at_loop(s, i + 1, i + w, 0) IN
                  IF ~r.ok THEN Fail
                  ELSE [ok |-> TRUE,
                        ch |-> r.val + ((b0 * Pow2(w)) % 256)
                                         * Pow2((w - 1) * 6 - w - 1),
                        next |-> i + w]

\* Pluck a character out of a string and return the index of the next
\* character: [ok, ch, next], or Fail.
char_range_at(s, i) ==
    IF ~InBounds(s, i) THEN Fail
    ELSE LET b0 == s[i + 1]
             w == utf8_char_width(b0)
         IN  IF w = 0 THEN Fail
             ELSE IF w = 1 THEN [ok |-> TRUE, ch |-> b0, next |-> i + 1]
             ELSE LET r == char_range_at_loop(s, i + 1, i + w, 0) IN
                  IF ~r.ok THEN Fail
                  ELSE [ok |-> TRUE,
                        ch |-> r.val + ((b0 * Pow2(w + 1)) % 256)
                                         * Pow2((w - 1) * 6 - w - 1),
                        next |-> i + w]

\* the while loop of char_range_at_reverse: step back over 10xxxxxx bytes
RECURSIVE char_range_at_reverse_loop(_, _)
char_range_at_reverse_loop(ss, prev) ==
    IF prev > 0
    THEN IF ~InBounds(ss, prev - 1) THEN -1
         ELSE IF And192(ss[prev]) = tag_cont_u8
              THEN char_range_at_reverse_loop(ss, prev - 1)
              ELSE prev
    ELSE prev

\* Given a byte position and a str, return the previous char and its
\* position
char_range_at_reverse(ss, start) ==
    LET p == char_range_at_reverse_loop(ss, start) IN
    IF p = -1 THEN Fail
    ELSE LET prev == p - 1
             r == char_range_at(ss, prev)
         IN  IF ~r.ok THEN Fail
             ELSE [ok |-> TRUE, ch |-> r.ch, next |-> prev]

(***************************************************************************)
(* The owned string: a byte vector of Len(data) allocated bytes, of which  *)
(* the first fill are in use; the last byte in use is the null terminator. *)
(***************************************************************************)
\* the literal ~""
EmptyStr == [data |-> << 0 >>, fill |-> 1]

\* Returns the string length/size in bytes not counting the null terminator
len(b) == b.fill - 1

\* the bytes [0, len) of an owned string
Bytes(b) == SubSeq(b.data, 1, b.fill - 1)

\* Returns the number of single-byte characters the string can hold without
\* reallocating
capacity(b) == Len(b.data) - 1

\* a store through a raw pointer: outside the allocation it lands in
\* somebody else's memory and leaves this buffer as it was
Poke(data, off, byte) ==
    IF off >= 0 /\ off < Len(data) THEN [data EXCEPT ![off + 1] = byte]
    ELSE data

\* vec::reserve: no-op when the allocation already holds n bytes, otherwise
\* reallocate to exactly n bytes, keeping the old ones; the new tail holds
\* whatever the allocator left there (junk)
vec_reserve(b, n, junk) ==
    IF Len(b.data) >= n THEN b
    ELSE [b EXCEPT !.data = b.data \o [k \in 1..(n - Len(b.data)) |-> junk]]

\* uint::next_power_of_two
RECURSIVE next_power_of_two_from(_, _)
next_power_of_two_from(n, p) ==
    IF p >= n THEN p ELSE next_power_of_two_from(n, 2 * p)
next_power_of_two(n) == next_power_of_two_from(n, 1)

\* Reserves capacity for exactly n bytes, not including the null terminator
reserve(b, n, junk) == vec_reserve(b, n + 1, junk)

\* reserve_at_least without the rounding to a power of two
reserve_at_least_exact(b, n, junk) == reserve(b, n, junk)

\* Reserves capacity for at least n bytes, over-allocating
reserve_at_least(b, n, junk) ==
    reserve(b, next_power_of_two(n + 1) - 1, junk)

\* set_len that updates fill but does not store the terminator
set_len_no_null(b, new_len) ==
    [data |-> b.data, fill |-> new_len + 1]

\* Sets the length of the string and adds the null terminator
set_len(b, new_len) ==
    [data |-> Poke(b.data, new_len, 0), fill |-> new_len + 1]

\* ptr::copy_memory(dst = data + off, src, Len(src))
RECURSIVE copy_memory(_, _, _)
copy_memory(data, off, src) ==
    IF src = << >> THEN data
    ELSE copy_memory(Poke(data, off, Head(src)), off + 1, Tail(src))

\* the number of bytes push_char emits for a code point
char_nb(code) ==
    IF code < max_one_b THEN 1
    ELSE IF code < max_two_b THEN 2
    ELSE IF code < max_three_b THEN 3
    ELSE IF code < max_four_b THEN 4
    ELSE IF code < max_five_b THEN 5
    ELSE 6

\* the bytes push_char stores at off .. off + nb - 1
char_bytes(code) ==
    LET nb == char_nb(code) IN
    IF nb = 1 THEN << code % 256 >>
    ELSE IF nb = 2 THEN
        << ((code \div 64) % 32) + tag_two_b,
           (code % 64) + tag_cont >>
    ELSE IF nb = 3 THEN
        << ((code \div 4096) % 16) + tag_three_b,
           ((code \div 64) % 64) + tag_cont,
           (code % 64) + tag_cont >>
    ELSE IF nb = 4 THEN
        << ((code \div 262144) % 8) + tag_four_b,
           ((code \div 4096) % 64) + tag_cont,
           ((code \div 64) % 64) + tag_cont,
           (code % 64) + tag_cont >>
    ELSE IF nb = 5 THEN
        << ((code \div 16777216) % 4) + tag_five_b,
           ((code \div 262144) % 64) + tag_cont,
           ((code \div 4096) % 64) + tag_cont,
           ((code \div 64) % 64) + tag_cont,
           (code % 64) + tag_cont >>
    ELSE
        << ((code \div 1073741824) % 2) + tag_six_b,
           ((code \div 16777216) % 64) + tag_cont,
           ((code \div 262144) % 64) + tag_cont,
           ((code \div 4096) % 64) + tag_cont,
           ((code \div 64) % 64) + tag_cont,
           (code % 64) + tag_cont >>

\* Appends a character at the end of a string
push_char(b, ch, junk) ==
    LET code == ch
        nb == char_nb(code)
        new_len == len(b) + nb
        b1 == reserve_at_least(b, new_len, junk)
        b2 == [b1 EXCEPT !.data = copy_memory(b1.data, len(b), char_bytes(code))]
    IN  set_len(b2, new_len)

\* Convert a char to a string
from_char(ch, junk) == push_char(EmptyStr, ch, junk)

\* Appends a string slice to the back of a string, without overallocating
push_str_no_overallocate(lhs, rhs, junk) ==
    LET llen == len(lhs)
        rlen == Len(rhs)
        b1 == reserve(lhs, llen + rlen, junk)
        b2 == [b1 EXCEPT !.data = copy_memory(b1.data, llen, rhs)]
    IN  set_len(b2, llen + rlen)

\* Appends a string slice to the back of a string
push_str(lhs, rhs, junk) ==
    LET llen == len(lhs)
        rlen == Len(rhs)
        b1 == reserve_at_least(lhs, llen + rlen, junk)
        b2 == [b1 EXCEPT !.data = copy_memory(b1.data, llen, rhs)]
    IN  set_len(b2, llen + rlen)

\* Concatenate two strings together
append(lhs, rhs, junk) == push_str_no_overallocate(lhs, rhs, junk)

\* from_buf_len without vec::raw::set_len: the terminator is pushed at
\* index 0 and the copied bytes stay outside the vector's fill
from_buf_len_no_set_len(buf) ==
    LET v == buf \o << 0 >>
        r == is_utf8(v)
    IN  IF r.ok /\ r.val
        THEN Ok([data |-> << 0 >> \o Tail(v), fill |-> 1])
        ELSE Fail

\* raw::from_buf_len: copy len bytes into a fresh vector of capacity
\* len + 1, push the terminator, and check the whole vector
from_buf_len(buf) ==
    LET v == buf \o << 0 >>
        r == is_utf8(v)
    IN  IF r.ok /\ r.val THEN Ok([data |-> v, fill |-> Len(v)]) ELSE Fail

raw_from_bytes_unchecked(v) ==
    Ok([data |-> v \o << 0 >>, fill |-> Len(v) + 1])

\* raw::from_bytes
raw_from_bytes(v) == from_buf_len(v)

\* Convert a vector of bytes to a UTF-8 string; fails if invalid UTF-8
from_bytes(vv) ==
    LET r == is_utf8(vv) IN
    IF r.ok /\ r.val THEN raw_from_bytes(vv) ELSE Fail

\* raw::slice_bytes_unique on the bytes s of a string: a fresh, exactly
\* sized owned string holding [begin, end)
slice_bytes_unique(s, begin, end) ==
    LET n == Len(s) + 1 IN
    IF ~(begin <= end) THEN Fail
    ELSE IF ~(end <= n) THEN Fail
    ELSE LET src == s \o << 0 >>
             v == SubSeq(src, begin + 1, end) \o << 0 >>
         IN  Ok([data |-> v, fill |-> Len(v)])

\* raw::slice_bytes on the bytes s of a string: the view [begin, end)
slice_bytes(s, begin, end) ==
    LET n == Len(s) + 1 IN
    IF ~(begin <= end) THEN Fail
    ELSE IF ~(end <= n) THEN Fail
    ELSE Ok(SubSeq(s \o << 0 >>, begin + 1, end))

\* Converts a string to a vector of bytes (not null-terminated)
to_bytes(s) ==
    LET r == slice_bytes_unique(s, 0, Len(s)) IN
    SubSeq(r.val.data, 1, Len(s))

\* pop_char that drops the final byte rather than the final character
pop_char_one_byte(b) ==
    LET end == len(b) IN
    IF ~(end > 0) THEN Fail
    ELSE LET r == char_range_at_reverse(Bytes(b), end) IN
         IF ~r.ok THEN Fail
         ELSE [ok |-> TRUE, s |-> set_len(b, end - 1), ch |-> r.ch]

\* Remove the final character from a string and return it
pop_char(b) ==
    LET end == len(b) IN
    IF ~(end > 0) THEN Fail
    ELSE LET r == char_range_at_reverse(Bytes(b), end) IN
         IF ~r.ok THEN Fail
         ELSE [ok |-> TRUE, s |-> set_len(b, r.next), ch |-> r.ch]

\* Remove the first character from a string and return it
shift_char(b) ==
    LET r == char_range_at(Bytes(b), 0) IN
    IF ~r.ok THEN Fail
    ELSE LET t == slice_bytes_unique(Bytes(b), r.next, len(b)) IN
         IF ~t.ok THEN Fail
         ELSE [ok |-> TRUE, s |-> t.val, ch |-> r.ch]

\* Prepend a char to a string: *s = from_char(ch) + *s
unshift_char(b, ch, junk) == append(from_char(ch, junk), Bytes(b), junk)

(***************************************************************************)
(* Slicing and searching.  A predicate f: &fn(char) -> bool is the set of  *)
(* characters it accepts.                                                  *)
(***************************************************************************)
\* slice without the boundary test on end
slice_begin_only(s, begin, end) ==
    LET b1 == is_char_boundary(s, begin) IN
    IF ~b1.ok \/ ~b1.val THEN Fail
    ELSE slice_bytes(s, begin, end)

\* Returns a slice of the given string from the byte range [begin..end)
slice(s, begin, end) ==
    LET b1 == is_char_boundary(s, begin) IN
    IF ~b1.ok \/ ~b1.val THEN Fail
    ELSE LET b2 == is_char_boundary(s, end) IN
         IF ~b2.ok \/ ~b2.val THEN Fail
         ELSE slice_bytes(s, begin, end)

\* the while loop of find_between
RECURSIVE find_between_loop(_, _, _, _)
find_between_loop(s, i, end, f) ==
    IF i < end
    THEN LET r == char_range_at(s, i) IN
         IF ~r.ok THEN Fail
         ELSE IF r.ch \in f THEN Ok(Some(i))
         ELSE find_between_loop(s, r.next, end, f)
    ELSE Ok(None)

\* Returns the byte index of the first character that satisfies the given
\* predicate, within a given range
find_between(s, start, end, f) ==
    IF ~(start <= end) THEN Fail
    ELSE IF ~(end <= Len(s)) THEN Fail
    ELSE LET b == is_char_boundary(s, start) IN
         IF ~b.ok \/ ~b.val THEN Fail
         ELSE find_between_loop(s, start, end, f)

\* rfind_between's loop reporting the offset it decoded back from instead
\* of the offset of the character found
RECURSIVE rfind_between_loop_after(_, _, _, _)
rfind_between_loop_after(s, i, end, f) ==
    IF i > end
    THEN LET r == char_range_at_reverse(s, i) IN
         IF ~r.ok THEN Fail
         ELSE IF r.ch \in f THEN Ok(Some(i))
         ELSE rfind_between_loop_after(s, r.next, end, f)
    ELSE Ok(None)

\* the while loop of rfind_between
RECURSIVE rfind_between_loop(_, _, _, _)
rfind_between_loop(s, i, end, f) ==
    IF i > end
    THEN LET r == char_range_at_reverse(s, i) IN
         IF ~r.ok THEN Fail
         ELSE IF r.ch \in f THEN Ok(Some(r.next))
         ELSE rfind_between_loop(s, r.next, end, f)
    ELSE Ok(None)

\* Returns the byte index of the last character that satisfies the given
\* predicate, within a given range
rfind_between(s, start, end, f) ==
    IF ~(start >= end) THEN Fail
    ELSE IF ~(start <= Len(s)) THEN Fail
    ELSE LET b == is_char_boundary(s, start) IN
         IF ~b.ok \/ ~b.val THEN Fail
         ELSE rfind_between_loop(s, start, end, f)

\* the byte scan of find_char_between
RECURSIVE find_char_between_loop(_, _, _, _)
find_char_between_loop(s, b, i, end) ==
    IF i < end
    THEN IF ~InBounds(s, i) THEN Fail
         ELSE IF s[i + 1] = b THEN Ok(Some(i))
         ELSE find_char_between_loop(s, b, i + 1, end)
    ELSE Ok(None)

\* Returns the byte index of the first matching character within a given
\* range
find_char_between(s, c, start, end) ==
    IF c < 128
    THEN IF ~(start <= end) THEN Fail
         ELSE IF ~(end <= Len(s)) THEN Fail
         ELSE find_char_between_loop(s, c % 256, start, end)
    ELSE find_between(s, start, end, { c })

\* the byte scan of rfind_char_between
RECURSIVE rfind_char_between_loop(_, _, _, _)
rfind_char_between_loop(s, b, i, end) ==
    IF i > end
    THEN IF ~InBounds(s, i - 1) THEN Fail
         ELSE IF s[i] = b THEN Ok(Some(i - 1))
         ELSE rfind_char_between_loop(s, b, i - 1, end)
    ELSE Ok(None)

\* Returns the byte index of the last matching character within a given
\* range
rfind_char_between(s, c, start, end) ==
    IF c < 128
    THEN IF ~(start >= end) THEN Fail
         ELSE IF ~(start <= Len(s)) THEN Fail
         ELSE rfind_char_between_loop(s, c % 256, start, end)
    ELSE rfind_between(s, start, end, { c })

\* Utility used by various searching functions: do the bytes of needle
\* stand in haystack at offset at
RECURSIVE match_at(_, _, _)
match_at(haystack, needle, at) ==
    IF needle = << >> THEN Ok(TRUE)
    ELSE IF ~InBounds(haystack, at) THEN Fail
    ELSE IF haystack[at + 1] # Head(needle) THEN Ok(FALSE)
    ELSE match_at(haystack, Tail(needle), at + 1)

\* find_str_between's loop with "i < e" for "i <= e"
RECURSIVE find_str_between_loop_lt(_, _, _, _)
find_str_between_loop_lt(haystack, needle, i, e) ==
    IF i < e
    THEN LET m == match_at(haystack, needle, i) IN
         IF ~m.ok THEN Fail
         ELSE IF m.val THEN Ok(Some(i))
         ELSE find_str_between_loop_lt(haystack, needle, i + 1, e)
    ELSE Ok(None)

\* the while loop of find_str_between
RECURSIVE find_str_between_loop(_, _, _, _)
find_str_between_loop(haystack, needle, i, e) ==
    IF i <= e
    THEN LET m == match_at(haystack, needle, i) IN
         IF ~m.ok THEN Fail
         ELSE IF m.val THEN Ok(Some(i))
         ELSE find_str_between_loop(haystack, needle, i + 1, e)
    ELSE Ok(None)

\* Returns the byte index of the first matching substring within a given
\* range
find_str_between(haystack, needle, start, end) ==
    IF ~(end <= Len(haystack)) THEN Fail
    ELSE LET needle_len == Len(needle) IN
         IF needle_len = 0 THEN Ok(Some(start))
         ELSE IF needle_len > end THEN Ok(None)
         ELSE find_str_between_loop(haystack, needle, start, end - needle_len)

(***************************************************************************)
(* Splitting and joining.  A vector of strings is a sequence of byte       *)
(* sequences.                                                              *)
(***************************************************************************)
\* the byte-scan loop of split_char_inner (sep < 128)
RECURSIVE split_char_loop(_, _, _, _, _, _, _, _)
split_char_loop(str, b, count, allow_empty, i, start, done, result) ==
    IF i < Len(str) /\ done < count
    THEN IF str[i + 1] = b
         THEN LET piece == slice_bytes_unique(str, start, i) IN
              IF allow_empty \/ start < i
              THEN IF ~piece.ok THEN Fail
                   ELSE split_char_loop(str, b, count, allow_empty, i + 1,
                            i + 1, done + 1,
                            Append(result, Bytes(piece.val)))
              ELSE split_char_loop(str, b, count, allow_empty, i + 1,
                       i + 1, done + 1, result)
         ELSE split_char_loop(str, b, count, allow_empty, i + 1, start,
                  done, result)
    ELSE [ok |-> TRUE, result |-> result, start |-> start]

\* the decoding loop of split_inner
RECURSIVE split_loop(_, _, _, _, _, _, _, _)
split_loop(str, sepfn, count, allow_empty, i, start, done, result) ==
    IF i < Len(str) /\ done < count
    THEN LET r == char_range_at(str, i) IN
         IF ~r.ok THEN Fail
         ELSE IF r.ch \in sepfn
         THEN LET piece == slice_bytes_unique(str, start, i) IN
              IF allow_empty \/ start < i
              THEN IF ~piece.ok THEN Fail
                   ELSE split_loop(str, sepfn, count, allow_empty, r.next,
                            r.next, done + 1,
                            Append(result, Bytes(piece.val)))
              ELSE split_loop(str, sepfn, count, allow_empty, r.next,
                       r.next, done + 1, result)
         ELSE split_loop(str, sepfn, count, allow_empty, r.next, start,
                  done, result)
    ELSE [ok |-> TRUE, result |-> result, start |-> start]

split_trailing_always(str, r, allow_trailing_empty) ==
    IF ~r.ok THEN Fail
    ELSE LET piece == slice_bytes_unique(str, r.start, Len(str)) IN
         IF ~piece.ok THEN Fail
         ELSE Ok(Append(r.result, Bytes(piece.val)))

\* the tail of both split loops: push the trailing substring
split_trailing(str, r, allow_trailing_empty) ==
    IF ~r.ok THEN Fail
    ELSE IF allow_trailing_empty \/ r.start < Len(str)
    THEN LET piece == slice_bytes_unique(str, r.start, Len(str)) IN
         IF ~piece.ok THEN Fail
         ELSE Ok(Append(r.result, Bytes(piece.val)))
    ELSE Ok(r.result)

split_inner(str, sepfn, count, allow_empty, allow_trailing_empty) ==
    split_trailing(str,
        split_loop(str, sepfn, count, allow_empty, 0, 0, 0, << >>),
        allow_trailing_empty)

split_char_inner(str, sep, count, allow_empty, allow_trailing_empty) ==
    IF sep < 128
    THEN split_trailing(str,
             split_char_loop(str, sep % 256, count, allow_empty, 0, 0, 0,
                             << >>),
             allow_trailing_empty)
    ELSE split_inner(str, { sep }, count, allow_empty, allow_trailing_empty)

\* Splits a string into substrings at each occurrence of a given character
split_char(str, sep) == split_char_inner(str, sep, Len(str), TRUE, TRUE)

\* ... up to 'count' times
splitn_char(str, sep, count) == split_char_inner(str, sep, count, TRUE, TRUE)

\* Like split_char, but omits empty strings from the returned vector
split_char_nonempty(str, sep) ==
    split_char_inner(str, sep, Len(str), FALSE, FALSE)

\* Like split_char, but a trailing empty string is omitted
split_char_no_trailing(str, sep) ==
    split_char_inner(str, sep, Len(str), TRUE, FALSE)

\* Splits a string into substrings using a character function
split(str, sepfn) == split_inner(str, sepfn, Len(str), TRUE, TRUE)

splitn_uncounted(str, sepfn, count) ==
    split_inner(str, sepfn, Len(str), TRUE, TRUE)

\* ... cutting at most count times
splitn(str, sepfn, count) == split_inner(str, sepfn, count, TRUE, TRUE)

\* Like split, but omits empty strings from the returned vector
split_nonempty(str, sepfn) == split_inner(str, sepfn, Len(str), FALSE, FALSE)

\* Like split, but a trailing empty string is omitted
split_no_trailing(str, sepfn) ==
    split_inner(str, sepfn, Len(str), TRUE, FALSE)

RECURSIVE iter_matches_loop_no_backtrack(_, _, _, _, _, _)
iter_matches_loop_no_backtrack(str, sep, i, match_start, match_i, calls) ==
    IF i < Len(str)
    THEN IF ~InBounds(sep, match_i) THEN Fail
         ELSE IF str[i + 1] = sep[match_i + 1]
         THEN LET ms == IF match_i = 0 THEN i ELSE match_start IN
              IF match_i + 1 = Len(sep)
              THEN iter_matches_loop_no_backtrack(str, sep, i + 1, ms, 0,
                       Append(calls, << ms, i + 1 >>))
              ELSE iter_matches_loop_no_backtrack(str, sep, i + 1, ms,
                       match_i + 1, calls)
         ELSE iter_matches_loop_no_backtrack(str, sep, i + 1, match_start,
                  0, calls)
    ELSE Ok(calls)

\* the while loop of iter_matches; calls is the sequence of the (from, to)
\* pairs f has been called with
RECURSIVE iter_matches_loop(_, _, _, _, _, _)
iter_matches_loop(str, sep, i, match_start, match_i, calls) ==
    IF i < Len(str)
    THEN IF ~InBounds(sep, match_i) THEN Fail
         ELSE IF str[i + 1] = sep[match_i + 1]
         THEN LET ms == IF match_i = 0 THEN i ELSE match_start IN
              IF match_i + 1 = Len(sep)
              THEN iter_matches_loop(str, sep, i + 1, ms, 0,
                       Append(calls, << ms, i + 1 >>))
              ELSE iter_matches_loop(str, sep, i + 1, ms, match_i + 1, calls)
         ELSE IF match_i > 0
              THEN iter_matches_loop(str, sep, match_start + 1, match_start,
                       0, calls)
              ELSE iter_matches_loop(str, sep, i + 1, match_start, match_i,
                       calls)
    ELSE Ok(calls)

iter_matches_no_assert(str, sep) ==
    iter_matches_loop(str, sep, 0, 0, 0, << >>)

\* the (from, to) pairs iter_matches reports, in order
iter_matches(str, sep) ==
    IF ~(Len(sep) > 0) THEN Fail
    ELSE iter_matches_loop(str, sep, 0, 0, 0, << >>)

\* the (from, to) pairs iter_between_matches reports, in order
RECURSIVE between_calls(_, _, _)
between_calls(matches, last_end, l) ==
    IF matches = << >> THEN << << last_end, l >> >>
    ELSE << << last_end, Head(matches)[1] >> >>
             \o between_calls(Tail(matches), Head(matches)[2], l)

iter_between_matches_unchecked(str, sep) ==
    LET m == iter_matches(str, sep) IN
    Ok(between_calls(IF m.ok THEN m.val ELSE << >>, 0, Len(str)))

iter_between_matches(str, sep) ==
    LET m == iter_matches(str, sep) IN
    IF ~m.ok THEN Fail ELSE Ok(between_calls(m.val, 0, Len(str)))

\* the closure of split_str applied to each reported pair
RECURSIVE split_str_push(_, _, _)
split_str_push(str, calls, result) ==
    IF calls = << >> THEN Ok(result)
    ELSE LET piece == slice_bytes_unique(str, Head(calls)[1], Head(calls)[2]) IN
         IF ~piece.ok THEN Fail
         ELSE split_str_push(str, Tail(calls), Append(result, Bytes(piece.val)))

\* Splits a string into a vector of the substrings separated by a given
\* string
split_str(str, sep) ==
    LET c == iter_between_matches(str, sep) IN
    IF ~c.ok THEN Fail ELSE split_str_push(str, c.val, << >>)

\* the for loop of connect
RECURSIVE connect_loop(_, _, _, _, _)
connect_loop(v, sep, acc, first, junk) ==
    IF v = << >> THEN acc
    ELSE LET a1 == IF first THEN acc ELSE push_str(acc, sep, junk) IN
         connect_loop(Tail(v), sep, push_str(a1, Head(v), junk), FALSE, junk)

\* Concatenate a vector of strings, placing a given separator between each
connect(v, sep, junk) == connect_loop(v, sep, EmptyStr, TRUE, junk)

\* the closure of replace applied to each reported pair
RECURSIVE replace_loop(_, _, _, _, _, _)
replace_loop(str, to, calls, result, first, junk) ==
    IF calls = << >> THEN Ok(result)
    ELSE LET r1 == IF first THEN result ELSE push_str(result, to, junk)
             piece == slice_bytes_unique(str, Head(calls)[1], Head(calls)[2])
         IN  IF ~piece.ok THEN Fail
             ELSE replace_loop(str, to, Tail(calls),
                      push_str(r1, Bytes(piece.val), junk), FALSE, junk)

\* Replace all occurrences of one string with another
replace(str, from, to, junk) ==
    LET c == iter_between_matches(str, from) IN
    IF ~c.ok THEN Fail
    ELSE replace_loop(str, to, c.val, EmptyStr, TRUE, junk)

(***************************************************************************)
(* State.                                                                  *)
(*   s    the owned string under mutation (its buffer and fill)            *)
(*   inp  the input string of the pure operations                          *)
(*   op   the operation performed last, arg its arguments, res its result  *)
(***************************************************************************)
VARIABLES s, inp, op, arg, res

vars == << s, inp, op, arg, res >>

\* all byte vectors over alphabet A of length at most n
ByteVecs(A, n) == UNION { [1..k -> A] : k \in 0..n }

\* the vectors of ByteVecs(A, n) that is_utf8 accepts
ValidStrs(A, n) == { v \in ByteVecs(A, n) : is_utf8(v) = Ok(TRUE) }

\* bytes the raw vectors handed to from_bytes are drawn from:
\* 'a', a continuation byte and a 2-byte lead
OwnedAlphabet == { 97, 130, 194 }

\* characters pushed: one per width class 1..6
\* ('a', U+0082, U+2082, U+10000, 2^26, 2^30)
PushChars == { 97, 130, 8322, 65536, 67108864, 1073741824 }

\* strings appended by push_str
PushStrs == ValidStrs(OwnedAlphabet, 2)

\* what the allocator may leave in fresh memory
JunkBytes == { 0, 255 }

(***************************************************************************)
(* The owned-string machine: construction and the mutators.               *)
(***************************************************************************)
InitOwned ==
    /\ s = EmptyStr
    /\ inp = << >>
    /\ op = "init"
    /\ arg = << >>
    /\ res = Ok(<< >>)

FromBytes ==
    \E v \in ByteVecs(OwnedAlphabet, MaxFrom) :
        LET r == from_bytes(v) IN
        /\ s' = IF r.ok THEN r.val ELSE s
        /\ op' = "from_bytes"
        /\ arg' = << v >>
        /\ res' = IF r.ok THEN Ok(Bytes(r.val)) ELSE Fail
        /\ UNCHANGED inp

PushChar ==
    \E ch \in PushChars, junk \in JunkBytes :
        /\ len(s) + char_nb(ch) <= MaxLen
        /\ s' = push_char(s, ch, junk)
        /\ op' = "push_char"
        /\ arg' = << Bytes(s), ch >>
        /\ res' = Ok(<< >>)
        /\ UNCHANGED inp

PushStr ==
    \E rhs \in PushStrs, junk \in JunkBytes :
        /\ len(s) + Len(rhs) <= MaxLen
        /\ s' = push_str(s, rhs, junk)
        /\ op' = "push_str"
        /\ arg' = << Bytes(s), rhs >>
        /\ res' = Ok(<< >>)
        /\ UNCHANGED inp

PushStrNoOverallocate ==
    \E rhs \in PushStrs, junk \in JunkBytes :
        /\ len(s) + Len(rhs) <= MaxLen
        /\ s' = push_str_no_overallocate(s, rhs, junk)
        /\ op' = "push_str_no_overallocate"
        /\ arg' = << Bytes(s), rhs >>
        /\ res' = Ok(<< >>)
        /\ UNCHANGED inp

PopChar ==
    LET r == pop_char(s) IN
    /\ s' = IF r.ok THEN r.s ELSE s
    /\ op' = "pop_char"
    /\ arg' = << Bytes(s) >>
    /\ res' = IF r.ok THEN Ok(r.ch) ELSE Fail
    /\ UNCHANGED inp

ShiftChar ==
    LET r == shift_char(s) IN
    /\ s' = IF r.ok THEN r.s ELSE s
    /\ op' = "shift_char"
    /\ arg' = << Bytes(s) >>
    /\ res' = IF r.ok THEN Ok(r.ch) ELSE Fail
    /\ UNCHANGED inp

UnshiftChar ==
    \E ch \in PushChars, junk \in JunkBytes :
        /\ len(s) + char_nb(ch) <= MaxLen
        /\ s' = unshift_char(s, ch, junk)
        /\ op' = "unshift_char"
        /\ arg' = << Bytes(s), ch >>
        /\ res' = Ok(<< >>)
        /\ UNCHANGED inp

Reserve ==
    \E n \in 0..MaxReserve, junk \in JunkBytes :
        /\ s' = reserve(s, n, junk)
        /\ op' = "reserve"
        /\ arg' = << Bytes(s), n, capacity(s) >>
        /\ res' = Ok(<< >>)
        /\ UNCHANGED inp

ReserveAtLeast ==
    \E n \in 0..MaxReserve, junk \in JunkBytes :
        /\ s' = reserve_at_least(s, n, junk)
        /\ op' = "reserve_at_least"
        /\ arg' = << Bytes(s), n, capacity(s) >>
        /\ res' = Ok(<< >>)
        /\ UNCHANGED inp

\* from_bytes(to_bytes(s)) on the current string
ToFromBytes ==
    LET r == from_bytes(to_bytes(Bytes(s))) IN
    /\ op' = "to_from_bytes"
    /\ arg' = << Bytes(s) >>
    /\ res' = IF r.ok THEN Ok(Bytes(r.val)) ELSE Fail
    /\ UNCHANGED << s, inp >>

Next ==
    \/ FromBytes
    \/ PushChar
    \/ PushStr
    \/ PushStrNoOverallocate
    \/ PopChar
    \/ ShiftChar
    \/ UnshiftChar
    \/ Reserve
    \/ ReserveAtLeast
    \/ ToFromBytes

Spec == InitOwned /\ [][Next]_vars

\* C1: after any sequence of the safe mutators on a string that starts
\* empty or comes from from_bytes, is_utf8 of the bytes [0, len) is true.
C1_ValidUtf8 == is_utf8(Bytes(s)) = Ok(TRUE)

\* a multi-byte character was popped off a string that keeps a character
C1_Witness ==
    /\ op = "pop_char"
    /\ res.ok
    /\ res.val >= 128
    /\ len(s) > 0

\* C2: capacity(s) >= len(s), and the byte stored at offset len(s) is the
\* sentinel 0.
C2_CapacityAndSentinel ==
    /\ capacity(s) >= len(s)
    /\ s.data[len(s) + 1] = 0

\* a character was popped and the sentinel now sits in front of a stale
\* non-zero byte of the allocation
C2_Witness ==
    /\ op = "pop_char"
    /\ res.ok
    /\ capacity(s) > len(s)
    /\ s.data[len(s) + 2] # 0

\* C5: from_bytes(v) aborts when is_utf8(v) is false, and otherwise yields
\* an owned string of length len(v) whose bytes equal v; hence
\* from_bytes(to_bytes(s)) == s.
C5_FromBytes ==
    /\ op = "from_bytes" =>
          IF is_utf8(arg[1]) = Ok(TRUE)
          THEN /\ res = Ok(arg[1])
               /\ len(s) = Len(arg[1])
               /\ Bytes(s) = arg[1]
          ELSE res = Fail
    /\ op = "to_from_bytes" => res = Ok(Bytes(s))

\* from_bytes aborted on a vector that ends inside a multi-byte sequence
C5_Witness ==
    /\ op = "from_bytes"
    /\ res = Fail
    /\ Len(arg[1]) >= 2
    /\ utf8_char_width(arg[1][1]) = 1

(***************************************************************************)
(* The codec: from_char followed by char_range_at, and is_utf8 on raw      *)
(* vectors.                                                                *)
(***************************************************************************)
\* bytes of the raw vectors: 'a', a continuation byte, and the lead bytes
\* of a 2-, a 3- and a 6-byte sequence
CodecAlphabet == { 97, 130, 194, 224, 252 }

\* code points below 2^31: around every power of two (so around every
\* width threshold), the largest one, and two alternating bit patterns
CodePoints ==
    { Pow2(k) + d : k \in 1..30, d \in { -1, 0, 1 } }
        \cup { 0, 2147483647, 1431655765, 715827882 }

InitCodec ==
    /\ s = EmptyStr
    /\ inp = << >>
    /\ op = "init"
    /\ arg = << >>
    /\ res = Ok(<< >>)

IsUtf8 ==
    /\ op' = "is_utf8"
    /\ arg' = << inp >>
    /\ res' = is_utf8(inp)
    /\ UNCHANGED << s, inp >>

\* from_char(ch), then char_range_at on the result at offset 0
FromChar ==
    \E ch \in CodePoints, junk \in JunkBytes :
        /\ inp' = Bytes(from_char(ch, junk))
        /\ op' = "from_char"
        /\ arg' = << ch >>
        /\ res' = char_range_at(inp', 0)
        /\ UNCHANGED s

NextCodec ==
    \/ IsUtf8
    \/ FromChar

SpecCodec == InitCodec /\ [][NextCodec]_vars

\* C3: decoding the bytes from_char emits for c with char_range_at at
\* offset 0 yields (c, number of bytes emitted).
C3_RoundTrip ==
    op = "from_char" =>
        /\ res.ok
        /\ res.ch = arg[1]
        /\ res.next = Len(inp)
        /\ Len(inp) = char_nb(arg[1])

\* a code point of the 6-byte class went through the round trip
C3_Witness ==
    /\ op = "from_char"
    /\ res.ok
    /\ Len(inp) = 6
    /\ arg[1] > max_five_b

\* is_utf8 applied to every raw vector
InitValidate ==
    /\ s = EmptyStr
    /\ inp \in ByteVecs(CodecAlphabet, MaxVec)
    /\ op = "init"
    /\ arg = << >>
    /\ res = Ok(<< >>)

\* raw::from_bytes applied to every raw vector
RawFromBytes ==
    LET r == raw_from_bytes(inp) IN
    /\ op = "init"
    /\ op' = "raw_from_bytes"
    /\ arg' = << inp >>
    /\ res' = IF r.ok THEN Ok(Bytes(r.val)) ELSE Fail
    /\ UNCHANGED << s, inp >>

NextValidate ==
    \/ IsUtf8
    \/ RawFromBytes

SpecValidate == InitValidate /\ [][NextValidate]_vars

\* the offsets the scan of v visits: 0, and i + width of the lead byte at i
\* while that stays inside v
RECURSIVE ScanOffsets(_, _)
ScanOffsets(v, i) ==
    IF i >= Len(v) THEN { }
    ELSE LET w == utf8_char_width(v[i + 1]) IN
         IF w = 0 \/ i + w > Len(v) THEN { i }
         ELSE { i } \cup ScanOffsets(v, i + w)

\* the sequence led by the byte at offset i is malformed
BadSequence(v, i) ==
    LET w == utf8_char_width(v[i + 1]) IN
    \/ w = 0
    \/ i + w > Len(v)
    \/ \E k \in 1..(w - 1) : v[i + k + 1] \notin 128..191

\* C4: is_utf8(v) is false exactly when some scanned lead byte has width 0,
\* its sequence runs past the end of v, or one of its continuation bytes
\* is not 10xxxxxx; it is true otherwise, and it never reads past the end.
C4_IsUtf8 ==
    op = "is_utf8" =>
        res = Ok(~ \E i \in ScanOffsets(inp, 0) : BadSequence(inp, i))

\* is_utf8 rejected "a" followed by a truncated 3-byte sequence
C4_Witness ==
    /\ op = "is_utf8"
    /\ res = Ok(FALSE)
    /\ inp = << 97, 224, 130 >>

(***************************************************************************)
(* Slicing and searching a valid string, at every pair of offsets up to    *)
(* one past its length: one call on each input.                            *)
(***************************************************************************)
\* bytes of the strings searched: 'a', 'b', a continuation byte, a 2-byte
\* lead and a 3-byte lead
SearchAlphabet == { 97, 98, 130, 194, 224 }

\* the characters the strings over SearchAlphabet decode to, and 'c'
SearchChars == { 97, 98, 99, 130 }

\* needles: the valid strings without the 3-byte lead
Needles == ValidStrs({ 97, 98, 130, 194 }, MaxNeedle)

\* byte offsets tried on a string: every offset up to one past its length
Offsets(str) == 0..(Len(str) + 1)

InitSearch ==
    /\ s = EmptyStr
    /\ inp \in ValidStrs(SearchAlphabet, MaxStr)
    /\ op = "init"
    /\ arg = << >>
    /\ res = Ok(<< >>)

Slice ==
    \E begin \in Offsets(inp), end \in Offsets(inp) :
        /\ op = "init"
        /\ op' = "slice"
        /\ arg' = << begin, end >>
        /\ res' = slice(inp, begin, end)
        /\ UNCHANGED << s, inp >>

FindBetween ==
    \E start \in Offsets(inp), end \in Offsets(inp), f \in SUBSET SearchChars :
        /\ op = "init"
        /\ op' = "find_between"
        /\ arg' = << start, end, f >>
        /\ res' = find_between(inp, start, end, f)
        /\ UNCHANGED << s, inp >>

RfindBetween ==
    \E start \in Offsets(inp), end \in Offsets(inp), f \in SUBSET SearchChars :
        /\ op = "init"
        /\ op' = "rfind_between"
        /\ arg' = << start, end, f >>
        /\ res' = rfind_between(inp, start, end, f)
        /\ UNCHANGED << s, inp >>

FindCharBetween ==
    \E start \in Offsets(inp), end \in Offsets(inp), c \in SearchChars :
        /\ op = "init"
        /\ op' = "find_char_between"
        /\ arg' = << start, end, c >>
        /\ res' = find_char_between(inp, c, start, end)
        /\ UNCHANGED << s, inp >>

RfindCharBetween ==
    \E start \in Offsets(inp), end \in Offsets(inp), c \in SearchChars :
        /\ op = "init"
        /\ op' = "rfind_char_between"
        /\ arg' = << start, end, c >>
        /\ res' = rfind_char_between(inp, c, start, end)
        /\ UNCHANGED << s, inp >>

FindStrBetween ==
    \E start \in Offsets(inp), end \in Offsets(inp), needle \in Needles :
        /\ op = "init"
        /\ op' = "find_str_between"
        /\ arg' = << start, end, needle >>
        /\ res' = find_str_between(inp, needle, start, end)
        /\ UNCHANGED << s, inp >>

NextSearch ==
    \/ Slice
    \/ FindBetween
    \/ RfindBetween
    \/ FindCharBetween
    \/ RfindCharBetween
    \/ FindStrBetween

SpecSearch == InitSearch /\ [][NextSearch]_vars

\* offset i is at most len(str) and is not inside a multi-byte sequence
Boundary(str, i) ==
    /\ i <= Len(str)
    /\ i < Len(str) => str[i + 1] \notin 128..191

\* the smallest and the largest element of a non-empty set of offsets
MinOf(S) == CHOOSE x \in S : \A y \in S : x <= y
MaxOf(S) == CHOOSE x \in S : \A y \in S : x >= y

\* C6: slice(s, begin, end) aborts whenever begin or end is not a character
\* boundary of s or begin > end, and otherwise yields the bytes [begin, end).
C6_Slice ==
    op = "slice" =>
        LET begin == arg[1]
            end == arg[2]
        IN  IF Boundary(inp, begin) /\ Boundary(inp, end) /\ begin <= end
            THEN res = Ok(SubSeq(inp, begin + 1, end))
            ELSE res = Fail

\* slice aborted although begin <= end <= len: end is inside a character
C6_Witness ==
    /\ op = "slice"
    /\ res = Fail
    /\ arg[1] <= arg[2]
    /\ arg[2] < Len(inp)
    /\ Boundary(inp, arg[1])

\* the start offsets in [lo, hi) of the characters of str that satisfy f
Hits(str, lo, hi, f) ==
    { i \in lo..(hi - 1) :
        /\ Boundary(str, i)
        /\ char_range_at(str, i).ok
        /\ char_range_at(str, i).ch \in f }

\* C7: for boundary offsets, find_between yields the smallest character
\* start in [start, end) whose character satisfies f, rfind_between the
\* largest one in [end, start); each yields None, without aborting, when
\* there is none.
C7_FindBetween ==
    /\ ( /\ op = "find_between"
         /\ arg[1] <= arg[2]
         /\ Boundary(inp, arg[1])
         /\ Boundary(inp, arg[2]) ) =>
            LET H == Hits(inp, arg[1], arg[2], arg[3]) IN
            res = Ok(IF H = { } THEN None ELSE Some(MinOf(H)))
    /\ ( /\ op = "rfind_between"
         /\ arg[2] <= arg[1]
         /\ Boundary(inp, arg[1])
         /\ Boundary(inp, arg[2]) ) =>
            LET H == Hits(inp, arg[2], arg[1], arg[3]) IN
            res = Ok(IF H = { } THEN None ELSE Some(MaxOf(H)))

\* rfind_between found a multi-byte character that is not the last one of
\* its range
C7_Witness ==
    /\ op = "rfind_between"
    /\ res.ok
    /\ res.val # None
    /\ res.val[1] + 2 < arg[1]
    /\ inp[res.val[1] + 1] >= 192

\* C8: for start <= end <= len, find_str_between yields the smallest i with
\* start <= i and i + len(needle) <= end where needle stands in haystack,
\* None when there is none, and Some(start) when needle is empty.
C8_FindStrBetween ==
    ( /\ op = "find_str_between"
      /\ arg[1] <= arg[2]
      /\ arg[2] <= Len(inp) ) =>
        LET start == arg[1]
            end == arg[2]
            needle == arg[3]
            M == { i \in start..(end - Len(needle)) :
                     SubSeq(inp, i + 1, i + Len(needle)) = needle }
        IN  /\ res = Ok(IF M = { } THEN None ELSE Some(MinOf(M)))
            /\ needle = << >> => res = Ok(Some(start))

\* a non-empty needle was found ending exactly at end, not at start
C8_Witness ==
    /\ op = "find_str_between"
    /\ res.ok
    /\ res.val # None
    /\ Len(arg[3]) = 2
    /\ res.val[1] > arg[1]
    /\ res.val[1] + 2 = arg[2]

\* C9: every range-restricted search aborts on an invalid range, and the
\* character searches abort when start is not a character boundary, for
\* ASCII characters too.
C9_AbortOnInvalidRange ==
    /\ ( /\ op \in { "find_between", "find_char_between", "find_str_between" }
         /\ (arg[1] > arg[2] \/ arg[2] > Len(inp)) ) => res = Fail
    /\ ( /\ op \in { "rfind_between", "rfind_char_between" }
         /\ (arg[1] < arg[2] \/ arg[1] > Len(inp)) ) => res = Fail
    /\ ( /\ op \in { "find_between", "find_char_between",
                      "rfind_between", "rfind_char_between" }
         /\ ~Boundary(inp, arg[1]) ) => res = Fail

(***************************************************************************)
(* Splitting a valid string and joining the fields again: one call on      *)
(* each input.                                                             *)
(***************************************************************************)
InitSplit ==
    /\ s = EmptyStr
    /\ inp \in ValidStrs(SearchAlphabet, MaxStr)
    /\ op = "init"
    /\ arg = << >>
    /\ res = Ok(<< >>)

\* split_str(inp, sep), and connect of its fields with sep
SplitStr ==
    \E sep \in Needles, junk \in JunkBytes :
        LET r == split_str(inp, sep) IN
        /\ op = "init"
        /\ op' = "split_str"
        /\ arg' = << sep >>
        /\ res' = IF r.ok
                  THEN Ok([fields |-> r.val,
                           joined |-> Bytes(connect(r.val, sep, junk))])
                  ELSE Fail
        /\ UNCHANGED << s, inp >>

\* split_char(inp, c), and connect of its fields with from_char(c)
SplitChar ==
    \E c \in SearchChars, junk \in JunkBytes :
        LET r == split_char(inp, c) IN
        /\ op = "init"
        /\ op' = "split_char"
        /\ arg' = << c >>
        /\ res' = IF r.ok
                  THEN Ok([fields |-> r.val,
                           joined |-> Bytes(connect(r.val,
                                        Bytes(from_char(c, junk)), junk))])
                  ELSE Fail
        /\ UNCHANGED << s, inp >>

\* the three policies of the character split on the same input
SplitCharFamily ==
    \E c \in SearchChars :
        /\ op = "init"
        /\ op' = "split_char_family"
        /\ arg' = << c >>
        /\ res' = Ok([all |-> split_char(inp, c),
                      no_trailing |-> split_char_no_trailing(inp, c),
                      nonempty |-> split_char_nonempty(inp, c)])
        /\ UNCHANGED << s, inp >>

\* the three policies of the predicate split on the same input
SplitFamily ==
    \E sepfn \in SUBSET SearchChars :
        /\ op = "init"
        /\ op' = "split_family"
        /\ arg' = << sepfn >>
        /\ res' = Ok([all |-> split(inp, sepfn),
                      no_trailing |-> split_no_trailing(inp, sepfn),
                      nonempty |-> split_nonempty(inp, sepfn)])
        /\ UNCHANGED << s, inp >>

SplitnChar ==
    \E c \in SearchChars, count \in 0..(Len(inp) + 1) :
        /\ op = "init"
        /\ op' = "splitn_char"
        /\ arg' = << c, count >>
        /\ res' = splitn_char(inp, c, count)
        /\ UNCHANGED << s, inp >>

Splitn ==
    \E sepfn \in SUBSET SearchChars, count \in 0..(Len(inp) + 1) :
        /\ op = "init"
        /\ op' = "splitn"
        /\ arg' = << sepfn, count >>
        /\ res' = splitn(inp, sepfn, count)
        /\ UNCHANGED << s, inp >>

Replace ==
    \E from \in Needles, to \in Needles, junk \in JunkBytes :
        LET r == replace(inp, from, to, junk) IN
        /\ op = "init"
        /\ op' = "replace"
        /\ arg' = << from, to >>
        /\ res' = IF r.ok THEN Ok(Bytes(r.val)) ELSE Fail
        /\ UNCHANGED << s, inp >>

NextSplit ==
    \/ SplitStr
    \/ Replace
    \/ SplitChar
    \/ SplitCharFamily
    \/ SplitFamily
    \/ SplitnChar
    \/ Splitn

SpecSplit == InitSplit /\ [][NextSplit]_vars

\* C10: for every string s, every non-empty sep and every char c,
\* connect(split_str(s, sep), sep) == s and
\* connect(split_char(s, c), from_char(c)) == s.
C10_SplitJoinInverse ==
    /\ (op = "split_str" /\ arg[1] # << >>) =>
            (res.ok /\ res.val.joined = inp)
    /\ op = "split_char" => (res.ok /\ res.val.joined = inp)

\* the start offsets of the occurrences of the character c in str, as
\* find_char_between reports them
SepStartsChar(str, c) ==
    { i \in 0..(Len(str) - 1) :
        /\ Boundary(str, i)
        /\ find_char_between(str, c, i, Len(str)) = Ok(Some(i)) }

\* the elements of a set of offsets in increasing order
RECURSIVE SortSet(_)
SortSet(S) ==
    IF S = { } THEN << >>
    ELSE << MinOf(S) >> \o SortSet(S \ { MinOf(S) })

\* str cut at the first count of the separator characters that start at
\* the offsets O: the pieces between them, then the unsplit remainder
CutAt(str, O, count) ==
    LET sq == SortSet(O)
        k == IF count < Len(sq) THEN count ELSE Len(sq)
        after(j) == char_range_at(str, sq[j]).next
    IN  [ j \in 1..(k + 1) |->
            SubSeq(str, (IF j = 1 THEN 0 ELSE after(j - 1)) + 1,
                        IF j = k + 1 THEN Len(str) ELSE sq[j]) ]

DropEmpty(v) == SelectSeq(v, LAMBDA x : x # << >>)

DropLastIfEmpty(v) ==
    IF v # << >> /\ v[Len(v)] = << >> THEN SubSeq(v, 1, Len(v) - 1) ELSE v

\* C11: split_char(s, c) returns (number of occurrences of c in s) + 1
\* fields, empty ones included; split_char_no_trailing is split_char with
\* the last field removed exactly when it is empty; split_char_nonempty is
\* split_char with every empty field removed; the same holds for split,
\* split_no_trailing and split_nonempty with a predicate.
C11_SplitPolicies ==
    /\ op = "split_char_family" =>
          LET r == res.val IN
          /\ r.all.ok
          /\ Len(r.all.val) = Cardinality(SepStartsChar(inp, arg[1])) + 1
          /\ r.no_trailing = Ok(DropLastIfEmpty(r.all.val))
          /\ r.nonempty = Ok(DropEmpty(r.all.val))
    /\ op = "split_family" =>
          LET r == res.val IN
          /\ r.all.ok
          /\ Len(r.all.val) =
                 Cardinality(Hits(inp, 0, Len(inp), arg[1])) + 1
          /\ r.no_trailing = Ok(DropLastIfEmpty(r.all.val))
          /\ r.nonempty = Ok(DropEmpty(r.all.val))

\* a string that starts and ends with the separator: three fields, two
\* without the trailing one, one non-empty
C11_Witness ==
    /\ op = "split_char_family"
    /\ res.val.all.ok
    /\ Len(res.val.all.val) = 3
    /\ res.val.all.val[1] = << >>
    /\ res.val.all.val[3] = << >>
    /\ res.val.no_trailing = Ok(<< << >>, res.val.all.val[2] >>)
    /\ res.val.nonempty = Ok(<< res.val.all.val[2] >>)

\* C12: splitn_char and splitn cut at the first count separators only:
\* min(count, number of separators) + 1 fields, the last one the unsplit
\* remainder of s, and the single field s when count = 0.
C12_Splitn ==
    /\ op = "splitn_char" =>
          LET O == SepStartsChar(inp, arg[1])
              n == Cardinality(O)
          IN  /\ res.ok
              /\ Len(res.val) = (IF arg[2] < n THEN arg[2] ELSE n) + 1
              /\ res.val = CutAt(inp, O, arg[2])
              /\ arg[2] = 0 => res.val = << inp >>
    /\ op = "splitn" =>
          LET O == Hits(inp, 0, Len(inp), arg[1])
              n == Cardinality(O)
          IN  /\ res.ok
              /\ Len(res.val) = (IF arg[2] < n THEN arg[2] ELSE n) + 1
              /\ res.val = CutAt(inp, O, arg[2])
              /\ arg[2] = 0 => res.val = << inp >>

\* one cut was made at a multi-byte separator and the remainder still
\* holds a separator
C12_Witness ==
    /\ op = "splitn"
    /\ arg[2] = 1
    /\ res.ok
    /\ Len(res.val) = 2
    /\ Cardinality(Hits(inp, 0, Len(inp), arg[1])) >= 2
    /\ Len(res.val[2]) >= 2
    /\ res.val[2][1] >= 192

RECURSIVE Replaced(_, _, _, _)
Replaced(str, from, to, pos) ==
    LET M == { i \in pos..(Len(str) - Len(from)) :
                 SubSeq(str, i + 1, i + Len(from)) = from }
    IN  IF M = { } THEN SubSeq(str, pos + 1, Len(str))
        ELSE SubSeq(str, pos + 1, MinOf(M)) \o to
                 \o Replaced(str, from, to, MinOf(M) + Len(from))

\* C14: for a non-empty search term, replace(s, from, to) replaces every
\* non-overlapping occurrence of from found by a left-to-right scan with to
\* and copies the unmatched spans unchanged and in order; it returns s when
\* from does not occur in s and when to == from.
C14_Replace ==
    (op = "replace" /\ arg[1] # << >>) =>
        LET from == arg[1]
            to == arg[2]
        IN  /\ res = Ok(Replaced(inp, from, to, 0))
            /\ (\A i \in 0..(Len(inp) - Len(from)) :
                    SubSeq(inp, i + 1, i + Len(from)) # from) => res = Ok(inp)
            /\ to = from => res = Ok(inp)

\* two occurrences were replaced by a string of another length, the second
\* one found after a partial match was abandoned
C14_Witness ==
    /\ op = "replace"
    /\ Len(arg[1]) = 2
    /\ Len(arg[2]) = 1
    /\ res.ok
    /\ Len(res.val) = Len(inp) - 1
    /\ inp[1] = arg[1][1]
    /\ inp[2] = arg[1][1]
    /\ arg[1][2] # arg[1][1]

TextAlphabet == { 32, 97, 128, 194, 227 }

\* the characters the strings over TextAlphabet decode to
TextChars == { 32, 97, 128, 12288 }

\* the characters char::is_whitespace accepts: '\t' .. '\r', ' ' and the
\* ideographic space of test_trim
WhitespaceChars == (9..13) \cup { 32, 12288 }

is_whitespace(c) == c \in WhitespaceChars

\* Returns the byte index of the first character that satisfies f
find(str, f) == find_between(str, 0, Len(str), f)

\* Returns the byte index of the last character that satisfies f
rfind(str, f) == rfind_between(str, Len(str), 0, f)

\* Returns a string with leading chars_to_trim removed
trim_left_chars(str, chars_to_trim) ==
    IF chars_to_trim = { } THEN Ok(str)
    ELSE LET r == find(str, TextChars \ chars_to_trim) IN
         IF ~r.ok THEN Fail
         ELSE IF r.val = None THEN Ok(<< >>)
         ELSE slice_bytes(str, r.val[1], Len(str))

\* Returns a string with trailing chars_to_trim removed
trim_right_chars(str, chars_to_trim) ==
    IF chars_to_trim = { } THEN Ok(str)
    ELSE LET r == rfind(str, TextChars \ chars_to_trim) IN
         IF ~r.ok THEN Fail
         ELSE IF r.val = None THEN Ok(<< >>)
         ELSE LET cr == char_range_at(str, r.val[1]) IN
              IF ~cr.ok THEN Fail ELSE slice_bytes(str, 0, cr.next)

\* Returns a string with leading and trailing chars_to_trim removed
trim_chars(str, chars_to_trim) ==
    LET r == trim_right_chars(str, chars_to_trim) IN
    IF ~r.ok THEN Fail ELSE trim_left_chars(r.val, chars_to_trim)

\* Returns a string with leading whitespace removed
trim_left(str) ==
    LET r == find(str, { c \in TextChars : ~is_whitespace(c) }) IN
    IF ~r.ok THEN Fail
    ELSE IF r.val = None THEN Ok(<< >>)
    ELSE slice_bytes(str, r.val[1], Len(str))

trim_right_one_byte(str) ==
    LET r == rfind(str, { c \in TextChars : ~is_whitespace(c) }) IN
    IF ~r.ok THEN Fail
    ELSE IF r.val = None THEN Ok(<< >>)
    ELSE slice_bytes(str, 0, r.val[1] + 1)

\* Returns a string with trailing whitespace removed
trim_right(str) ==
    LET r == rfind(str, { c \in TextChars : ~is_whitespace(c) }) IN
    IF ~r.ok THEN Fail
    ELSE IF r.val = None THEN Ok(<< >>)
    ELSE LET cr == char_range_at(str, r.val[1]) IN
         IF ~cr.ok THEN Fail ELSE slice_bytes(str, 0, cr.next)

\* Returns a string with leading and trailing whitespace removed
trim(str) ==
    LET r == trim_right(str) IN
    IF ~r.ok THEN Fail ELSE trim_left(r.val)

InitText ==
    /\ s = EmptyStr
    /\ inp \in ValidStrs(TextAlphabet, MaxText)
    /\ op = "init"
    /\ arg = << >>
    /\ res = Ok(<< >>)

\* trim(inp), and trim of the result
Trim ==
    LET r == trim(inp) IN
    /\ op = "init"
    /\ op' = "trim"
    /\ arg' = << >>
    /\ res' = [once |-> r, twice |-> IF r.ok THEN trim(r.val) ELSE Fail]
    /\ UNCHANGED << s, inp >>

\* trim_chars(inp, chars_to_trim), and trim_chars of the result
TrimChars ==
    \E chars_to_trim \in SUBSET TextChars :
        LET r == trim_chars(inp, chars_to_trim) IN
        /\ op = "init"
        /\ op' = "trim_chars"
        /\ arg' = << chars_to_trim >>
        /\ res' = [once |-> r,
                   twice |-> IF r.ok THEN trim_chars(r.val, chars_to_trim)
                             ELSE Fail]
        /\ UNCHANGED << s, inp >>

\* Splits a string into a vector of the substrings separated by whitespace
words(str) == split_nonempty(str, WhitespaceChars)

\* an owned copy of the bytes v
copy_str(v) == [data |-> v \o << 0 >>, fill |-> Len(v) + 1]

split_within_step_ge(st, word, lim, junk) ==
    IF len(st.row) + Len(word) + 1 >= lim
    THEN [rows |-> Append(st.rows, Bytes(st.row)), row |-> copy_str(word)]
    ELSE LET r1 == IF len(st.row) > 0
                   THEN append(st.row, << 32 >>, junk) ELSE st.row
         IN  [rows |-> st.rows, row |-> append(r1, word, junk)]

\* the body of the loop of split_within for one word; st holds rows and row
split_within_step(st, word, lim, junk) ==
    IF len(st.row) + Len(word) + 1 > lim
    THEN [rows |-> Append(st.rows, Bytes(st.row)), row |-> copy_str(word)]
    ELSE LET r1 == IF len(st.row) > 0
                   THEN append(st.row, << 32 >>, junk) ELSE st.row
         IN  [rows |-> st.rows, row |-> append(r1, word, junk)]

\* the loop of split_within over the words
RECURSIVE split_within_loop(_, _, _, _)
split_within_loop(st, ws, lim, junk) ==
    IF ws = << >> THEN st
    ELSE split_within_loop(split_within_step(st, Head(ws), lim, junk),
                           Tail(ws), lim, junk)

\* Splits a string into rows of at most lim bytes, at word boundaries
split_within(ss, lim, junk) ==
    LET ws == words(ss) IN
    IF ~ws.ok THEN Fail
    ELSE IF ws.val = << >> THEN Ok(<< >>)
    ELSE LET st == split_within_loop([rows |-> << >>, row |-> EmptyStr],
                                     ws.val, lim, junk)
         IN  IF Bytes(st.row) # << >>
             THEN Ok(Append(st.rows, Bytes(st.row)))
             ELSE Ok(st.rows)

SplitWithin ==
    \E lim \in 0..(MaxText + 1), junk \in JunkBytes :
        /\ op = "init"
        /\ op' = "split_within"
        /\ arg' = << lim >>
        /\ res' = split_within(inp, lim, junk)
        /\ UNCHANGED << s, inp >>

NextText ==
    \/ Trim
    \/ TrimChars
    \/ SplitWithin

SpecText == InitText /\ [][NextText]_vars

\* str from its first character outside T to the end of its last character
\* outside T; empty when every character is in T
Trimmed(str, T) ==
    LET H == Hits(str, 0, Len(str), TextChars \ T) IN
    IF H = { } THEN << >>
    ELSE SubSeq(str, MinOf(H) + 1,
                MaxOf(H) + utf8_char_width(str[MaxOf(H) + 1]))

\* C16: trim(s) is the sub-slice of s from its first non-whitespace
\* character to the end of its last one (empty when there is none), and
\* trim(trim(s)) == trim(s); the same holds for trim_chars with any removal
\* set, and the empty removal set returns s unchanged.
C16_Trim ==
    /\ op = "trim" =>
          /\ res.once = Ok(Trimmed(inp, WhitespaceChars))
          /\ res.twice = res.once
    /\ op = "trim_chars" =>
          /\ res.once = Ok(Trimmed(inp, arg[1]))
          /\ res.twice = res.once
          /\ arg[1] = { } => res.once = Ok(inp)

\* whitespace of one and of three bytes was removed around a text that
\* ends with a 2-byte character
C16_Witness ==
    /\ op = "trim"
    /\ res.once.ok
    /\ Len(inp) = 5
    /\ inp[1] = 32
    /\ inp[Len(inp)] = 32
    /\ res.once.val = << 97, 194, 128 >>

(***************************************************************************)
(* Case mapping: one call on each input.                                   *)
(***************************************************************************)
\* the while loop of chars
RECURSIVE chars_loop(_, _, _)
chars_loop(str, i, buf) ==
    IF i < Len(str)
    THEN LET r == char_range_at(str, i) IN
         IF ~r.ok THEN Fail ELSE chars_loop(str, r.next, Append(buf, r.ch))
    ELSE Ok(buf)

\* Convert a string to a vector of characters
chars(str) == chars_loop(str, 0, << >>)

\* the loop of map over the characters each_char yields
RECURSIVE map_loop(_, _, _, _)
map_loop(cs, ff, result, junk) ==
    IF cs = << >> THEN result
    ELSE map_loop(Tail(cs), ff, push_char(result, ff[Head(cs)], junk), junk)

\* Apply a function to each character; ff is the function as a table over
\* the characters of ss
map(ss, ff, junk) ==
    LET cs == chars(ss) IN
    IF ~cs.ok THEN Fail
    ELSE Ok(map_loop(cs.val, ff, reserve(EmptyStr, Len(ss), junk), junk))

\* c as libc::c_char: the low 8 bits of c, as a signed byte
as_c_char(c) ==
    LET b == c % 256 IN IF b >= 128 THEN b - 256 ELSE b

\* libc::tolower and libc::toupper in the C locale
libc_tolower(c) == IF c \in 65..90 THEN c + 32 ELSE c
libc_toupper(c) == IF c \in 97..122 THEN c - 32 ELSE c

\* the characters of a string
CharsOf(str) == { chars(str).val[k] : k \in 1..Len(chars(str).val) }

\* Convert a string to lowercase
to_lower(str, junk) ==
    map(str, [c \in CharsOf(str) |-> libc_tolower(as_c_char(c))], junk)

\* Convert a string to uppercase
to_upper(str, junk) ==
    map(str, [c \in CharsOf(str) |-> libc_toupper(as_c_char(c))], junk)

\* bytes of the strings: 'A', 'a', ':', and the 2-byte lead C5 with two
\* continuation bytes (C5 81 is U+0141, C5 A1 is U+0161).  The low byte
\* of every character is below 128, so its c_char is not negative.
CaseAlphabet == { 58, 65, 97, 129, 161, 197 }

InitCase ==
    /\ s = EmptyStr
    /\ inp \in ValidStrs(CaseAlphabet, MaxCase)
    /\ op = "init"
    /\ arg = << >>
    /\ res = Ok(<< >>)

ToLower ==
    \E junk \in JunkBytes :
        LET r == to_lower(inp, junk) IN
        /\ op = "init"
        /\ op' = "to_lower"
        /\ arg' = << >>
        /\ res' = IF r.ok THEN Ok(Bytes(r.val)) ELSE Fail
        /\ UNCHANGED << s, inp >>

ToUpper ==
    \E junk \in JunkBytes :
        LET r == to_upper(inp, junk) IN
        /\ op = "init"
        /\ op' = "to_upper"
        /\ arg' = << >>
        /\ res' = IF r.ok THEN Ok(Bytes(r.val)) ELSE Fail
        /\ UNCHANGED << s, inp >>

NextCase ==
    \/ ToLower
    \/ ToUpper

SpecCase == InitCase /\ [][NextCase]_vars

\* C17: to_upper(s) and to_lower(s) have as many characters as s; every
\* character outside the ASCII letters, every non-ASCII one included, is
\* unchanged; 'a'..'z' map to 'A'..'Z' under to_upper and 'A'..'Z' to
\* 'a'..'z' under to_lower.
C17_CaseMapping ==
    op \in { "to_lower", "to_upper" } =>
        /\ res.ok
        /\ LET cs == chars(inp).val
               rs == chars(res.val).val
           IN  /\ Len(rs) = Len(cs)
               /\ \A k \in 1..Len(cs) :
                     rs[k] = IF op = "to_upper" /\ cs[k] \in 97..122
                             THEN cs[k] - 32
                             ELSE IF op = "to_lower" /\ cs[k] \in 65..90
                             THEN cs[k] + 32
                             ELSE cs[k]

(***************************************************************************)
(* Comparing strings: one call on each input.                              *)
(***************************************************************************)
\* Bytewise slice equality; as_buf reports the lengths with the trailing
\* null counted, memcmp looks at the bytes before it
eq_slice(a, b) ==
    LET alen == Len(a) + 1
        blen == Len(b) + 1
    IN  IF alen # blen THEN FALSE
        ELSE \A k \in 1..(alen - 1) : a[k] = b[k]

\* cmp of two unsigned integers (bytes or lengths)
uint_cmp(x, y) ==
    IF x < y THEN "Less" ELSE IF x > y THEN "Greater" ELSE "Equal"

\* the for loop of cmp over 0 .. low
RECURSIVE cmp_loop(_, _, _, _)
cmp_loop(a, b, idx, low) ==
    IF idx < low
    THEN LET o == uint_cmp(a[idx + 1], b[idx + 1]) IN
         IF o # "Equal" THEN o ELSE cmp_loop(a, b, idx + 1, low)
    ELSE "Equal"

cmp_no_len(a, b) ==
    LET low == IF Len(a) < Len(b) THEN Len(a) ELSE Len(b) IN
    cmp_loop(a, b, 0, low)

\* the total order of strings
cmp(a, b) ==
    LET low == IF Len(a) < Len(b) THEN Len(a) ELSE Len(b)
        o == cmp_loop(a, b, 0, low)
    IN  IF o # "Equal" THEN o ELSE uint_cmp(Len(a), Len(b))

\* the while loop of lt
RECURSIVE lt_loop(_, _, _, _)
lt_loop(a, b, i, end) ==
    IF i < end
    THEN IF a[i + 1] < b[i + 1] THEN TRUE
         ELSE IF a[i + 1] > b[i + 1] THEN FALSE
         ELSE lt_loop(a, b, i + 1, end)
    ELSE Len(a) < Len(b)

\* Bytewise slice less than
lt(a, b) ==
    lt_loop(a, b, 0, IF Len(a) < Len(b) THEN Len(a) ELSE Len(b))

\* Bytewise less than or equal
le(a, b) == ~lt(b, a)

\* Bytewise greater than or equal
ge(a, b) == ~lt(a, b)

\* Bytewise greater than
gt(a, b) == ~le(a, b)

\* bytes of the strings compared: 'a', 'b', a continuation byte and a
\* 2-byte lead
CmpAlphabet == { 97, 98, 130, 194 }

CmpStrs == ValidStrs(CmpAlphabet, MaxCmp)

InitCmp ==
    /\ s = EmptyStr
    /\ inp \in CmpStrs
    /\ op = "init"
    /\ arg = << >>
    /\ res = Ok(<< >>)

\* the comparisons of inp with b, and of the pairs of inp, b and c
Cmp ==
    \E b \in CmpStrs, c \in CmpStrs :
        /\ op = "init"
        /\ op' = "cmp"
        /\ arg' = << b, c >>
        /\ res' = [ab |-> cmp(inp, b), ba |-> cmp(b, inp),
                   bc |-> cmp(b, c), ac |-> cmp(inp, c),
                   eq |-> eq_slice(inp, b),
                   lt |-> lt(inp, b), le |-> le(inp, b),
                   ge |-> ge(inp, b), gt |-> gt(inp, b)]
        /\ UNCHANGED << s, inp >>

\* the inner loop of levdistance over the characters tcs of t, from the
\* character index j on; dcol[k] of the source is dcol[k + 1] here
RECURSIVE levdistance_inner(_, _, _, _, _)
levdistance_inner(dcol, sc, tcs, j, current) ==
    IF j >= Len(tcs) THEN dcol
    ELSE LET next == dcol[j + 2]
             d1 == IF sc = tcs[j + 1] THEN current
                   ELSE LET m == IF current < next THEN current ELSE next
                        IN  (IF m < dcol[j + 1] THEN m ELSE dcol[j + 1]) + 1
         IN  levdistance_inner([dcol EXCEPT ![j + 2] = d1], sc, tcs, j + 1,
                               next)

\* the outer loop of levdistance over the characters scs of s
RECURSIVE levdistance_outer(_, _, _, _)
levdistance_outer(dcol, scs, i, tcs) ==
    IF i >= Len(scs) THEN dcol
    ELSE levdistance_outer(
             levdistance_inner([dcol EXCEPT ![1] = i + 1], scs[i + 1], tcs,
                               0, i),
             scs, i + 1, tcs)

\* Levenshtein Distance between two strings
levdistance(str, t) ==
    LET slen == Len(str)
        tlen == Len(t)
    IN  IF slen = 0 THEN tlen
        ELSE IF tlen = 0 THEN slen
        ELSE LET dcol == [x \in 1..(tlen + 1) |-> x - 1] IN
             levdistance_outer(dcol, chars(str).val, 0,
                               chars(t).val)[tlen + 1]

\* levdistance of inp and t, both ways, and of inp and itself
Levdistance ==
    \E t \in CmpStrs :
        /\ op = "init"
        /\ op' = "levdistance"
        /\ arg' = << t >>
        /\ res' = [st |-> levdistance(inp, t), ts |-> levdistance(t, inp),
                   ss |-> levdistance(inp, inp)]
        /\ UNCHANGED << s, inp >>

NextCmp ==
    \/ Cmp
    \/ Levdistance

SpecCmp == InitCmp /\ [][NextCmp]_vars

\* the byte-wise lexicographic order of a and b: decided by the first
\* position where they differ, else by their lengths
Lex(a, b) ==
    LET low == IF Len(a) < Len(b) THEN Len(a) ELSE Len(b)
        D == { k \in 1..low : a[k] # b[k] }
    IN  IF D # { }
        THEN (IF a[MinOf(D)] < b[MinOf(D)] THEN "Less" ELSE "Greater")
        ELSE IF Len(a) < Len(b) THEN "Less"
        ELSE IF Len(a) > Len(b) THEN "Greater"
        ELSE "Equal"

\* C18: cmp is the byte-wise lexicographic total order: cmp(a, b) is Equal
\* iff eq_slice(a, b), Less iff cmp(b, a) is Greater, transitive, Less for
\* a proper prefix a of b; lt(a, b) iff cmp(a, b) is Less and le(a, b) iff
\* cmp(a, b) is not Greater.
C18_TotalOrder ==
    op = "cmp" =>
        LET a == inp
            b == arg[1]
        IN  /\ res.ab = Lex(a, b)
            /\ (res.ab = "Equal") <=> res.eq
            /\ (res.ab = "Less") <=> (res.ba = "Greater")
            /\ (res.ab = "Less" /\ res.bc = "Less") => res.ac = "Less"
            /\ (res.ab # "Greater" /\ res.bc # "Greater")
                   => res.ac # "Greater"
            /\ (Len(a) < Len(b) /\ SubSeq(b, 1, Len(a)) = a)
                   => res.ab = "Less"
            /\ res.lt <=> (res.ab = "Less")
            /\ res.le <=> (res.ab # "Greater")

\* a is a proper prefix of b, and b is below c by a continuation byte
C18_Witness ==
    /\ op = "cmp"
    /\ inp = << 97 >>
    /\ arg[1] = << 97, 98 >>
    /\ arg[2] = << 97, 194, 130 >>
    /\ res.ab = "Less"
    /\ res.bc = "Less"
    /\ res.ac = "Less"
    /\ res.le
    /\ ~res.eq

\* the Levenshtein distance of two sequences: the least number of
\* insertions, deletions and substitutions that turn a into b
RECURSIVE Lev(_, _)
Lev(a, b) ==
    IF a = << >> THEN Len(b)
    ELSE IF b = << >> THEN Len(a)
    ELSE LET del == Lev(Tail(a), b) + 1
             ins == Lev(a, Tail(b)) + 1
             sub == Lev(Tail(a), Tail(b))
                        + (IF Head(a) = Head(b) THEN 0 ELSE 1)
             m == IF del < ins THEN del ELSE ins
         IN  IF m < sub THEN m ELSE sub

\* C19: levdistance(s, t) is the Levenshtein distance of chars(s) and
\* chars(t), for strings with multi-byte characters too; hence
\* levdistance(s, s) == 0 and levdistance(s, t) == levdistance(t, s).
C19_Levdistance ==
    op = "levdistance" =>
        /\ res.st = Lev(chars(inp).val, chars(arg[1]).val)
        /\ res.ss = 0
        /\ res.st = res.ts

\* the words v joined by single spaces
RECURSIVE JoinSp(_)
JoinSp(v) ==
    IF v = << >> THEN << >>
    ELSE IF Len(v) = 1 THEN v[1]
    ELSE v[1] \o << 32 >> \o JoinSp(Tail(v))

RECURSIVE count_chars_loop(_, _, _, _)
count_chars_loop(str, i, end, n) ==
    IF i < end
    THEN LET r == char_range_at(str, i) IN
         IF ~r.ok THEN Fail ELSE count_chars_loop(str, r.next, end, n + 1)
    ELSE Ok(n)

\* the number of characters of str in the byte range [start, end)
count_chars(str, start, end) ==
    LET b1 == is_char_boundary(str, start)
        b2 == is_char_boundary(str, end)
    IN  IF ~b1.ok \/ ~b1.val THEN Fail
        ELSE IF ~b2.ok \/ ~b2.val THEN Fail
        ELSE count_chars_loop(str, start, end, 0)

\* Returns the number of characters that a string holds
char_len(str) == count_chars(str, 0, Len(str))

\* the while loop of each_char_reverse from byte position pos; calls is
\* the sequence of characters it has been called with
RECURSIVE each_char_reverse_loop(_, _, _, _)
each_char_reverse_loop(str, pos, it, calls) ==
    IF pos > 0
    THEN LET r == char_range_at_reverse(str, pos) IN
         IF ~r.ok THEN Fail
         ELSE IF r.ch \notin it THEN Ok(Append(calls, r.ch))
         ELSE each_char_reverse_loop(str, r.next, it, Append(calls, r.ch))
    ELSE Ok(calls)

\* Iterates over the chars in a string in reverse: pos starts at 0 and
\* len, the value of char_len, is not used
each_char_reverse(str, it) ==
    LET pos == 0
        l == char_len(str)
    IN  IF ~l.ok THEN Fail
        ELSE each_char_reverse_loop(str, pos, it, << >>)

\* the closure of each_chari_reverse applied to the characters chs that
\* each_char_reverse yields, until it returns false
RECURSIVE each_chari_reverse_calls(_, _, _, _)
each_chari_reverse_calls(chs, ch_pos, it, calls) ==
    IF chs = << >> THEN calls
    ELSE LET c == << ch_pos - 1, Head(chs) >> IN
         IF Head(chs) \notin it THEN Append(calls, c)
         ELSE each_chari_reverse_calls(Tail(chs), ch_pos - 1, it,
                                       Append(calls, c))

\* Iterates over the chars in a string in reverse, with indices
each_chari_reverse(str, it) ==
    LET l == char_len(str)
        inner == each_char_reverse(str, it)
    IN  IF ~l.ok \/ ~inner.ok THEN Fail
        ELSE Ok(each_chari_reverse_calls(inner.val, l.val, it, << >>))

InitIter ==
    /\ s = EmptyStr
    /\ inp \in ValidStrs(SearchAlphabet, MaxStr)
    /\ op = "init"
    /\ arg = << >>
    /\ res = Ok(<< >>)

EachCharReverse ==
    \E it \in SUBSET SearchChars :
        /\ op = "init"
        /\ op' = "each_char_reverse"
        /\ arg' = << it >>
        /\ res' = each_char_reverse(inp, it)
        /\ UNCHANGED << s, inp >>

EachChariReverse ==
    \E it \in SUBSET SearchChars :
        /\ op = "init"
        /\ op' = "each_chari_reverse"
        /\ arg' = << it >>
        /\ res' = each_chari_reverse(inp, it)
        /\ UNCHANGED << s, inp >>

NextIter ==
    \/ EachCharReverse
    \/ EachChariReverse

SpecIter == InitIter /\ [][NextIter]_vars

\* the sequence v in reverse order
Reversed(v) == [k \in 1..Len(v) |-> v[Len(v) + 1 - k]]

\* the longest prefix of v that ends with its first element outside it
UpToStop(v, it) ==
    LET Stops == { k \in 1..Len(v) : v[k] \notin it } IN
    IF Stops = { } THEN v ELSE SubSeq(v, 1, MinOf(Stops))

RECURSIVE BitOr(_, _)
BitOr(a, b) ==
    IF a = 0 THEN b
    ELSE IF b = 0 THEN a
    ELSE (IF a % 2 = 1 \/ b % 2 = 1 THEN 1 ELSE 0)
             + 2 * BitOr(a \div 2, b \div 2)

\* the while loop of is_utf16
RECURSIVE is_utf16_loop(_, _)
is_utf16_loop(v, i) ==
    IF i < Len(v)
    THEN LET u == v[i + 1] IN
         IF u <= 55295 \/ u >= 57344 THEN is_utf16_loop(v, i + 1)
         ELSE IF i + 1 < Len(v) THEN Ok(FALSE)
         ELSE IF ~InBounds(v, i + 1) THEN Fail
         ELSE LET u2 == v[i + 2] IN
              IF u < 55295 \/ u > 56319 THEN Ok(FALSE)
              ELSE IF u2 < 56320 \/ u2 > 57343 THEN Ok(FALSE)
              ELSE is_utf16_loop(v, i + 2)
    ELSE Ok(TRUE)

\* Determines if a vector of u16 contains valid UTF-16
is_utf16(v) == is_utf16_loop(v, 0)

\* the body of the loop of to_utf16 for one character
to_utf16_char(ch) ==
    IF ch % 65536 = ch
    THEN IF ~(ch <= 55295 \/ ch >= 57344) THEN Fail
         ELSE Ok(<< ch % 65536 >>)
    ELSE IF ~(ch >= 65536 /\ ch <= 1114111) THEN Fail
         ELSE LET c == ch - 65536
                  w1 == BitOr(55296, (c \div 1024) % 65536)
                  w2 == BitOr(56320, (c % 65536) % 1024)
              IN  Ok(<< w1, w2 >>)

\* the loop of to_utf16 over the characters each_char yields
RECURSIVE to_utf16_loop(_, _)
to_utf16_loop(cs, u) ==
    IF cs = << >> THEN Ok(u)
    ELSE LET w == to_utf16_char(Head(cs)) IN
         IF ~w.ok THEN Fail ELSE to_utf16_loop(Tail(cs), u \o w.val)

\* Converts to a vector of u16 encoded as UTF-16
to_utf16(str) ==
    LET cs == chars(str) IN
    IF ~cs.ok THEN Fail ELSE to_utf16_loop(cs.val, << >>)

\* the while loop of utf16_chars; calls is the sequence of characters f
\* has been called with, kept when the loop aborts
RECURSIVE utf16_chars_loop(_, _, _)
utf16_chars_loop(v, i, calls) ==
    IF i < Len(v) /\ v[i + 1] # 0
    THEN LET u == v[i + 1] IN
         IF u <= 55295 \/ u >= 57344
         THEN utf16_chars_loop(v, i + 1, Append(calls, u))
         ELSE IF ~InBounds(v, i + 1) THEN [ok |-> FALSE, calls |-> calls]
         ELSE LET u2 == v[i + 2] IN
              IF ~(u >= 55296 /\ u <= 56319)
              THEN [ok |-> FALSE, calls |-> calls]
              ELSE IF ~(u2 >= 56320 /\ u2 <= 57343)
              THEN [ok |-> FALSE, calls |-> calls]
              ELSE LET c1 == (u - 55296) * 1024
                       c2 == BitOr(c1, u2 - 56320)
                       c == BitOr(c2, 65536)
                   IN  utf16_chars_loop(v, i + 2, Append(calls, c))
    ELSE [ok |-> TRUE, calls |-> calls]

utf16_chars_no_partial(v) ==
    LET r == utf16_chars_loop(v, 0, << >>) IN
    IF r.ok THEN r ELSE [ok |-> FALSE, calls |-> << >>]

utf16_chars(v) == utf16_chars_loop(v, 0, << >>)

\* the closure of from_utf16 applied to each character
RECURSIVE from_utf16_push(_, _, _)
from_utf16_push(buf, cs, junk) ==
    IF cs = << >> THEN buf
    ELSE from_utf16_push(push_char(buf, Head(cs), junk), Tail(cs), junk)

from_utf16(v, junk) ==
    LET r == utf16_chars(v) IN
    IF ~r.ok THEN Fail
    ELSE Ok(from_utf16_push(reserve(EmptyStr, Len(v), junk), r.calls, junk))

\* units: 0, 'a', the ends of the two BMP ranges, and high and low
\* surrogates (D800, D840, DBFF, DC00, DFFF)
Utf16Units == { 0, 97, 55295, 55296, 55360, 56319, 56320, 57343, 57344 }

\* characters: 0, 'a', the ends of the BMP ranges, a surrogate, the first
\* and last supplementary code points, U+20000, and U+110000
Utf16Chars ==
    { 0, 97, 55295, 55296, 57344, 65535, 65536, 131072, 1114111, 1114112 }

\* the UTF-8 bytes of a sequence of characters
RECURSIVE EncodeChars(_)
EncodeChars(cs) ==
    IF cs = << >> THEN << >>
    ELSE char_bytes(Head(cs)) \o EncodeChars(Tail(cs))

Utf16Strs == { EncodeChars(cs) : cs \in ByteVecs(Utf16Chars, MaxUtf16Chars) }

\* the input is a string ("str") or a vector of units ("units")
InitUtf16 ==
    /\ s = EmptyStr
    /\ arg \in { << "str" >>, << "units" >> }
    /\ inp \in IF arg[1] = "str" THEN Utf16Strs
                ELSE ByteVecs(Utf16Units, MaxUnits)
    /\ op = "init"
    /\ res = Ok(<< >>)

IsUtf16 ==
    /\ op = "init"
    /\ arg[1] = "units"
    /\ op' = "is_utf16"
    /\ res' = is_utf16(inp)
    /\ UNCHANGED << s, inp, arg >>

\* utf16_chars(inp, f) and from_utf16(inp), then to_utf16 of the result
FromToUtf16 ==
    \E junk \in JunkBytes :
        LET r == from_utf16(inp, junk) IN
        /\ op = "init"
        /\ arg[1] = "units"
        /\ op' = "from_utf16"
        /\ res' = [calls |-> utf16_chars(inp),
                   from |-> IF r.ok THEN Ok(Bytes(r.val)) ELSE Fail,
                   back |-> IF r.ok THEN to_utf16(Bytes(r.val)) ELSE Fail]
        /\ UNCHANGED << s, inp, arg >>

\* to_utf16(inp), then from_utf16 of the result
ToFromUtf16 ==
    \E junk \in JunkBytes :
        LET u == to_utf16(inp)
            r == IF u.ok THEN from_utf16(u.val, junk) ELSE Fail
        IN  /\ op = "init"
            /\ arg[1] = "str"
            /\ op' = "to_utf16"
            /\ res' = [to |-> u,
                       back |-> IF r.ok THEN Ok(Bytes(r.val)) ELSE Fail]
            /\ UNCHANGED << s, inp, arg >>

NextUtf16 ==
    \/ IsUtf16
    \/ FromToUtf16
    \/ ToFromUtf16

SpecUtf16 == InitUtf16 /\ [][NextUtf16]_vars

\* the units of v from offset i on obey the pairing rule: a unit outside
\* [D800, E000) stands alone, a unit in [D800, DC00) is followed by one in
\* [DC00, E000)
RECURSIVE WellFormed16(_, _)
WellFormed16(v, i) ==
    IF i >= Len(v) THEN TRUE
    ELSE IF v[i + 1] \notin 55296..57343 THEN WellFormed16(v, i + 1)
    ELSE /\ v[i + 1] \in 55296..56319
         /\ i + 1 < Len(v)
         /\ v[i + 2] \in 56320..57343
         /\ WellFormed16(v, i + 2)

\* C22: from_utf16(to_utf16(s)) == s for every string s whose characters
\* are neither surrogates nor above 0x10FFFF, and
\* to_utf16(from_utf16(u)) == u for every valid UTF-16 unit sequence u.
C22_Utf16RoundTrip ==
    /\ ( /\ op = "to_utf16"
         /\ \A k \in 1..Len(chars(inp).val) :
               /\ chars(inp).val[k] \notin 55296..57343
               /\ chars(inp).val[k] <= 1114111 ) =>
            res.back = Ok(inp)
    /\ (op = "from_utf16" /\ WellFormed16(inp, 0)) => res.back = Ok(inp)

\* C23: is_utf16(v) is true exactly when v obeys the pairing rule, false
\* for any other pairing, and never indexes past the end of v.
C23_IsUtf16 ==
    op = "is_utf16" => res = Ok(WellFormed16(inp, 0))

\* the unit at offset i is a lone or mismatched surrogate
BadUnit(v, i) ==
    /\ v[i + 1] \in 55296..57343
    /\ ~ ( /\ v[i + 1] \in 55296..56319
           /\ i + 1 < Len(v)
           /\ v[i + 2] \in 56320..57343 )

\* the offsets at which a unit or a pair of v starts, from offset i up to
\* the first malformed one
RECURSIVE Scan16(_, _)
Scan16(v, i) ==
    IF i >= Len(v) THEN { }
    ELSE IF BadUnit(v, i) THEN { i }
    ELSE { i } \cup Scan16(v, IF v[i + 1] \in 55296..57343 THEN i + 2
                                ELSE i + 1)

AppendChars == { 97, 98 }

\* inp = << characters appended so far, times an append changed capacity >>
InitReserve ==
    /\ s = EmptyStr
    /\ inp = << 0, 0 >>
    /\ op = "init"
    /\ arg = << >>
    /\ res = Ok(<< >>)

AppendChar ==
    \E ch \in AppendChars, junk \in JunkBytes :
        LET t == push_char(s, ch, junk) IN
        /\ inp[1] < MaxAppend
        /\ s' = t
        /\ inp' = << inp[1] + 1,
                     IF capacity(t) # capacity(s) THEN inp[2] + 1 ELSE inp[2] >>
        /\ op' = "push_char"
        /\ arg' = << Bytes(s), ch, capacity(s) >>
        /\ res' = Ok(<< >>)

NextReserve ==
    \/ AppendChar
    \/ Reserve
    \/ ReserveAtLeast

SpecReserve == InitReserve /\ [][NextReserve]_vars

\* the largest e with 2^e <= k, for k >= 1
RECURSIVE Log2Floor(_)
Log2Floor(k) == IF k <= 1 THEN 0 ELSE 1 + Log2Floor(k \div 2)

\* the least number of the form 2^e - 1 that is at least n
LeastPow2Minus1(n) ==
    CHOOSE m \in { 2 ^ e - 1 : e \in 0..10 } :
        /\ m >= n
        /\ \A e \in 0..10 : 2 ^ e - 1 >= n => m <= 2 ^ e - 1

\* C26: reserve and reserve_at_least leave the length and the bytes alone
\* and leave capacity >= n; they change nothing when the capacity already
\* suffices; a growing reserve makes the capacity exactly n, a growing
\* reserve_at_least exactly the next power of two above n, minus one; and
\* k single-byte appends change the capacity at most log2(k) + 1 times.
C26_Reserve ==
    /\ op \in { "reserve", "reserve_at_least" } =>
           LET n == arg[2]
               want == IF op = "reserve" THEN n ELSE LeastPow2Minus1(n) IN
           /\ Bytes(s) = arg[1]
           /\ len(s) = Len(arg[1])
           /\ capacity(s) >= n
           /\ capacity(s) = IF arg[3] >= want THEN arg[3] ELSE want
    /\ inp[1] >= 1 => inp[2] <= Log2Floor(inp[1]) + 1

\* after three appends changed the capacity twice (0, 1, 3), a
\* reserve_at_least of 4 grew the buffer past the request, to 7
C26_Witness ==
    /\ op = "reserve_at_least"
    /\ inp = << 3, 2 >>
    /\ Len(arg[1]) = 3
    /\ arg[2] = 4
    /\ arg[3] = 3
    /\ capacity(s) = 7

\* ---------------------------------------------------------------------
\* raw::slice_bytes and raw::slice_bytes_unique called directly
\* ---------------------------------------------------------------------

InitSlice ==
    /\ s = EmptyStr
    /\ inp \in ValidStrs(SearchAlphabet, MaxStr)
    /\ op = "init"
    /\ arg = << >>
    /\ res = Ok(<< >>)

\* res holds the bytes the returned view covers
SliceBytes ==
    \E begin \in 0..(Len(inp) + 2), end \in 0..(Len(inp) + 2) :
        /\ op = "init"
        /\ op' = "slice_bytes"
        /\ arg' = << begin, end >>
        /\ res' = slice_bytes(inp, begin, end)
        /\ UNCHANGED << s, inp >>

\* res holds the bytes of the returned string, before its own terminator
SliceBytesUnique ==
    \E begin \in 0..(Len(inp) + 2), end \in 0..(Len(inp) + 2) :
        LET r == slice_bytes_unique(inp, begin, end) IN
        /\ op = "init"
        /\ op' = "slice_bytes_unique"
        /\ arg' = << begin, end >>
        /\ res' = IF r.ok THEN Ok(Bytes(r.val)) ELSE Fail
        /\ UNCHANGED << s, inp >>

NextSlice ==
    \/ SliceBytes
    \/ SliceBytesUnique

SpecSlice == InitSlice /\ [][NextSlice]_vars

\* C27: raw::slice_bytes and raw::slice_bytes_unique abort when begin > end
\* or end > len(s), end = len(s) + 1 included; otherwise they return the
\* bytes [begin, end) of s, which never cover the sentinel.
C27_SliceBounds ==
    op \in { "slice_bytes", "slice_bytes_unique" } =>
        IF arg[1] > arg[2] \/ arg[2] > Len(inp)
        THEN res = Fail
        ELSE res = Ok(SubSeq(inp, arg[1] + 1, arg[2]))


\* ---------------------------------------------------------------------
\* The byte-scan fast paths beside the decoding paths
\* ---------------------------------------------------------------------

\* bytes of the strings: 'a', 'b', the continuation byte A1 and the 2-byte
\* leads C1 and C2; is_utf8 accepts C1 A1, which char_range_at decodes to
\* 'a', and C2 A1, which it decodes to U+00A1
FastAlphabet == { 97, 98, 161, 193, 194 }

\* the ASCII characters searched for
FastChars == { 97, 98 }

InitFast ==
    /\ s = EmptyStr
    /\ inp \in ValidStrs(FastAlphabet, MaxStr)
    /\ op = "init"
    /\ arg = << >>
    /\ res = Ok(<< >>)

\* split_char_inner beside split_inner with |x| x == c
SplitCharInner ==
    \E c \in FastChars, count \in 0..MaxStr,
       allow_empty \in BOOLEAN, allow_trailing_empty \in BOOLEAN :
        /\ op = "init"
        /\ op' = "split_char_inner"
        /\ arg' = << c, count, allow_empty, allow_trailing_empty >>
        /\ res' = [fast |-> split_char_inner(inp, c, count, allow_empty,
                                             allow_trailing_empty),
                   slow |-> split_inner(inp, { c }, count, allow_empty,
                                        allow_trailing_empty)]
        /\ UNCHANGED << s, inp >>

\* find_char_between beside find_between with |x| x == c
FindCharFast ==
    \E c \in FastChars, start \in 0..Len(inp), end \in 0..Len(inp) :
        /\ op = "init"
        /\ op' = "find_char_between"
        /\ arg' = << c, start, end >>
        /\ res' = [fast |-> find_char_between(inp, c, start, end),
                   slow |-> find_between(inp, start, end, { c })]
        /\ UNCHANGED << s, inp >>

\* rfind_char_between beside rfind_between with |x| x == c
RfindCharFast ==
    \E c \in FastChars, start \in 0..Len(inp), end \in 0..Len(inp) :
        /\ op = "init"
        /\ op' = "rfind_char_between"
        /\ arg' = << c, start, end >>
        /\ res' = [fast |-> rfind_char_between(inp, c, start, end),
                   slow |-> rfind_between(inp, start, end, { c })]
        /\ UNCHANGED << s, inp >>

NextFast ==
    \/ SplitCharInner
    \/ FindCharFast
    \/ RfindCharFast

SpecFast == InitFast /\ [][NextFast]_vars

\* C28: on every string is_utf8 accepts and every ASCII c, split_char_inner
\* returns the fields of split_inner with |x| x == c, and for boundary
\* offsets find_char_between and rfind_char_between return what find_between
\* and rfind_between return with |x| x == c.
C28_FastPathsAgree ==
    /\ op = "split_char_inner" => res.fast = res.slow
    /\ ( /\ op \in { "find_char_between", "rfind_char_between" }
         /\ Boundary(inp, arg[2])
         /\ Boundary(inp, arg[3]) ) => res.fast = res.slow


\* ---------------------------------------------------------------------
\* split_within: what the rows hold
\* ---------------------------------------------------------------------

\* the fields of row between single spaces, empty ones kept
RECURSIVE SpaceFields(_, _)
SpaceFields(row, cur) ==
    IF row = << >> THEN << cur >>
    ELSE IF Head(row) = 32 THEN << cur >> \o SpaceFields(Tail(row), << >>)
    ELSE SpaceFields(Tail(row), Append(cur, Head(row)))

\* the fields of every row, in order
RECURSIVE RowFields(_)
RowFields(rows) ==
    IF rows = << >> THEN << >>
    ELSE SpaceFields(Head(rows), << >>) \o RowFields(Tail(rows))

\* C29: no row of split_within(ss, lim) is the empty string, and the rows
\* split on single spaces give, in order, exactly words(ss), for every ss
\* and lim.
C29_RowsAreTheWords ==
    op = "split_within" =>
        /\ res.ok
        /\ \A k \in 1..Len(res.val) : res.val[k] # << >>
        /\ RowFields(res.val) = words(inp).val


\* ---------------------------------------------------------------------
\* iter_matches, one iteration of its while loop at a time.  While the
\* call runs, res holds its locals i, match_start and match_i and the
\* (from, to) pairs passed to f so far.
\* ---------------------------------------------------------------------

\* Returns the byte index of the first matching substring beginning from a
\* given byte offset
find_str_from(haystack, needle, start) ==
    find_str_between(haystack, needle, start, Len(haystack))

\* the loop body with a failed match going back to match_start itself
iter_matches_step_stuck(str, sep, st) ==
    IF ~InBounds(str, st.i) \/ ~InBounds(sep, st.match_i) THEN Fail
    ELSE IF str[st.i + 1] = sep[st.match_i + 1]
    THEN LET ms == IF st.match_i = 0 THEN st.i ELSE st.match_start IN
         IF st.match_i + 1 = Len(sep)
         THEN [ok |-> TRUE, i |-> st.i + 1, match_start |-> ms, match_i |-> 0,
               calls |-> Append(st.calls, << ms, st.i + 1 >>)]
         ELSE [ok |-> TRUE, i |-> st.i + 1, match_start |-> ms,
               match_i |-> st.match_i + 1, calls |-> st.calls]
    ELSE IF st.match_i > 0
         THEN [ok |-> TRUE, i |-> st.match_start,
               match_start |-> st.match_start, match_i |-> 0,
               calls |-> st.calls]
         ELSE [ok |-> TRUE, i |-> st.i + 1, match_start |-> st.match_start,
               match_i |-> st.match_i, calls |-> st.calls]

\* one iteration of the while loop of iter_matches
iter_matches_step(str, sep, st) ==
    IF ~InBounds(str, st.i) \/ ~InBounds(sep, st.match_i) THEN Fail
    ELSE IF str[st.i + 1] = sep[st.match_i + 1]
    THEN LET ms == IF st.match_i = 0 THEN st.i ELSE st.match_start IN
         IF st.match_i + 1 = Len(sep)
         THEN [ok |-> TRUE, i |-> st.i + 1, match_start |-> ms, match_i |-> 0,
               calls |-> Append(st.calls, << ms, st.i + 1 >>)]
         ELSE [ok |-> TRUE, i |-> st.i + 1, match_start |-> ms,
               match_i |-> st.match_i + 1, calls |-> st.calls]
    ELSE IF st.match_i > 0
         THEN [ok |-> TRUE, i |-> st.match_start + 1,
               match_start |-> st.match_start, match_i |-> 0,
               calls |-> st.calls]
         ELSE [ok |-> TRUE, i |-> st.i + 1, match_start |-> st.match_start,
               match_i |-> st.match_i, calls |-> st.calls]

InitMatch ==
    /\ s = EmptyStr
    /\ inp \in ValidStrs(SearchAlphabet, MaxStr)
    /\ op = "init"
    /\ arg = << >>
    /\ res = Ok(<< >>)

\* entry: the assertion on sep_len, then the locals at their initial values
IterMatchesEnter ==
    \E sep \in Needles :
        /\ op = "init"
        /\ arg' = << sep >>
        /\ IF Len(sep) > 0
           THEN /\ op' = "iter_matches"
                /\ res' = [ok |-> TRUE, i |-> 0, match_start |-> 0,
                           match_i |-> 0, calls |-> << >>]
           ELSE /\ op' = "abort"
                /\ res' = Fail
        /\ UNCHANGED << s, inp >>

\* while i < l { ... }
IterMatchesStep ==
    /\ op = "iter_matches"
    /\ res.i < Len(inp)
    /\ res' = iter_matches_step(inp, arg[1], res)
    /\ op' = IF res'.ok THEN "iter_matches" ELSE "abort"
    /\ UNCHANGED << s, inp, arg >>

\* the loop condition is false: the function returns
IterMatchesReturn ==
    /\ op = "iter_matches"
    /\ ~(res.i < Len(inp))
    /\ op' = "done"
    /\ UNCHANGED << s, inp, arg, res >>

NextMatch ==
    \/ IterMatchesEnter
    \/ IterMatchesStep
    \/ IterMatchesReturn

\* a running call keeps running
SpecMatch == InitMatch /\ [][NextMatch]_vars /\ WF_vars(NextMatch)

\* the end of the match before the k-th one; 0 before the first
PrevEnd(calls, k) == IF k = 1 THEN 0 ELSE calls[k - 1][2]

\* the matches reported by a call that returned are as claimed
MatchesAsClaimed ==
    op = "done" =>
        LET calls == res.calls
            sep == arg[1]
        IN  /\ \A k \in 1..Len(calls) :
                  /\ calls[k][2] - calls[k][1] = Len(sep)
                  /\ calls[k][2] <= Len(inp)
                  /\ SubSeq(inp, calls[k][1] + 1, calls[k][2]) = sep
                  /\ find_str_from(inp, sep, PrevEnd(calls, k))
                         = Ok(Some(calls[k][1]))
            /\ \A j \in 1..Len(calls), k \in 1..Len(calls) :
                  j < k => /\ calls[j][1] < calls[k][1]
                           /\ calls[j][2] <= calls[k][1]

====
